---- MODULE Spec2Model ----
(***************************************************************************)
(* Reminder dispatch and deduplication engine of family-scheduler:        *)
(* sendUpcomingTaskReminders (src/app/lib/push.ts) over the task,          *)
(* subscription and dispatch stores, with the acknowledgement endpoint     *)
(* (src/app/api/push/confirm/route.ts) and the schedule upsert             *)
(* (src/app/api/schedule/route.ts) as the writers of the task store.       *)
(*                                                                         *)
(* Time is counted in half minutes (30 s) since day 0, 00:00 UTC, so that  *)
(* the floor of the code's millisecond arithmetic is visible.              *)
(***************************************************************************)
EXTENDS Integers, Sequences, FiniteSets, TLC

VARIABLES
  now,          \* the wall clock, in half minutes
  tasks,        \* family_schedule: task id -> row, or NoTask
  subs,         \* push_subscriptions: endpoint -> row, or NoSub
  dispatches,   \* push_reminder_dispatches: set of rows [dispatch_key, sent_at]
  sweep,        \* per sweeper: the locals of one sendUpcomingTaskReminders call
  sweepNo,      \* number of sweeps invoked so far
  log,          \* every transport call made by a sweep, with what the push service did
  returned,     \* the answers of the triggers: the summaries returned by the
                \* completed sweeps, and their refusals (n = 0, status 401)
  flaggedAt,    \* task id -> the number of sweeps invoked when its notified flag was set
  env,          \* process.env: which of the two VAPID keys are set (non-blank)
  vapidInitialized,  \* the module flag of initVapid
  registered,   \* endpoint -> the body of the last accepted POST of the subscribe route
  ack           \* per request to the acknowledgement endpoint: its locals and its answer

vars == <<now, tasks, subs, dispatches, sweep, sweepNo, log, returned, flaggedAt,
          env, vapidInitialized, registered, ack>>

-----------------------------------------------------------------------------
(* Bounds of the model *)

MaxSweeps == 3
MaxTicks == 2
MinutesAhead == 47
MaxAcks == 3

(* Universe *)

TaskIds == {"t1", "t2"}
Endpoints == {"e1", "e2"}
Sweepers == {"s1", "s2"}

NoTask == [absent |-> TRUE]
NoSub == [absent |-> TRUE]
NoReg == [absent |-> TRUE]
NoRegistrations == [e \in Endpoints |-> NoReg]

\* the requests to the acknowledgement endpoint
AckIds == 1..MaxAcks
Null == -1

HalfPerMinute == 2
MinutesPerDay == 1440

-----------------------------------------------------------------------------
(* People and audience *)

childUserNames == {"he_ravid", "he_amit", "he_alin"}
parentUserNames == {"he_sivan", "he_roi"}

isChildUserName(value) == value \in childUserNames
isParentUserName(value) == value \in parentUserNames

(* Texts.  A text column is a string, NullText when it is NULL.  The texts  *)
(* with blanks or capitals that the model uses are listed here with what   *)
(* String.prototype.trim and toLowerCase make of them.                     *)

NullText == "<null>"

\* value || ""
orEmpty(value) == IF value = NullText THEN "" ELSE value

\* a list column or an array is the sequence of its entries; the NULL column is
\* NullList, whose text has no name in it
NullList == <<NullText>>

parts(list) == {list[i] : i \in 1..Len(list)}

trim(text) ==
  CASE text = " " -> ""
    [] text = " alin " -> "alin"
    [] text = " he_amit " -> "he_amit"
    [] text = " s3 " -> "s3"
    [] OTHER -> text

toLowerCase(text) ==
  CASE text = "AMIT" -> "amit"
    [] text = "Alin" -> "alin"
    [] text = "Lesson" -> "lesson"
    [] text = "English - Karl" -> "english - karl"
    [] OTHER -> text

\* the known names that the regular expressions of lines 76-84 find in a token
hebrewNamesIn(token) ==
  CASE token \in childUserNames -> {token}
    [] token = "he_ravid!" -> {"he_ravid"}
    [] OTHER -> {}

\* what the table holds under the key "constructor": it is a plain object, and the
\* lookup finds the property inherited from Object.prototype
ObjectConstructor == "[Function: Object]"

\* childKeyToName[token], "" when the lookup gives undefined
childKeyToName(token) ==
  CASE token = "ravid" -> "he_ravid"
    [] token = "amit" -> "he_amit"
    [] token = "alin" -> "he_alin"
    [] token = "he_ravid" -> "he_ravid"
    [] token = "he_amit" -> "he_amit"
    [] token = "he_alin" -> "he_alin"
    [] token = "constructor" -> ObjectConstructor
    [] OTHER -> ""

\* normalizeTaskChildNames decoding only the first token
normalizeTaskChildNamesFirstOnly(rawChild) ==
  LET tokens == {trim(toLowerCase(rawChild[i])) : i \in 1..Len(rawChild)} \ {""}
      first == IF rawChild = <<>> THEN {} ELSE {trim(toLowerCase(rawChild[1]))} \ {""}
      mapped == {childKeyToName(token) : token \in first} \ {""}
      found == UNION {hebrewNamesIn(rawChild[i]) : i \in 1..Len(rawChild)}
  IN IF tokens = {} THEN {} ELSE mapped \cup found

\* rawChild is the sequence of the parts of the encoding between its "_"
normalizeTaskChildNames(rawChild) ==
  LET tokens == {trim(toLowerCase(rawChild[i])) : i \in 1..Len(rawChild)} \ {""}
      mapped == {childKeyToName(token) : token \in tokens} \ {""}
      found == UNION {hebrewNamesIn(rawChild[i]) : i \in 1..Len(rawChild)}
  IN IF tokens = {} THEN {} ELSE mapped \cup found

getTaskAudienceChildren(task) == normalizeTaskChildNames(task.child)

\* shouldSubscriptionReceiveTask with the empty watch list watching nobody
shouldSubscriptionReceiveTaskStrict(subscription, audienceChildren) ==
  LET userName == trim(orEmpty(subscription.user_name))
  IN IF audienceChildren = {} THEN FALSE
     ELSE IF userName = "" THEN TRUE
     ELSE IF userName \in childUserNames THEN userName \in audienceChildren
     ELSE IF userName \in parentUserNames
       THEN IF subscription.receive_all THEN TRUE
            ELSE {trim(v) : v \in parts(subscription.watch_children)} \cap childUserNames
                   \cap audienceChildren # {}
     ELSE FALSE

\* shouldSubscriptionReceiveTask without the last return of line 377
shouldSubscriptionReceiveTaskOpen(subscription, audienceChildren) ==
  LET userName == trim(orEmpty(subscription.user_name))
  IN IF audienceChildren = {} THEN FALSE
     ELSE IF userName = "" THEN TRUE
     ELSE IF userName \in childUserNames THEN userName \in audienceChildren
     ELSE IF userName \in parentUserNames
       THEN IF subscription.receive_all THEN TRUE
            ELSE LET trackedChildren ==
                       {trim(v) : v \in parts(subscription.watch_children)} \cap childUserNames
                 IN IF trackedChildren = {} THEN TRUE
                    ELSE trackedChildren \cap audienceChildren # {}
     ELSE TRUE

\* shouldSubscriptionReceiveTask without the wildcard of lines 351-354
shouldSubscriptionReceiveTaskNoWildcard(subscription, audienceChildren) ==
  LET userName == trim(orEmpty(subscription.user_name))
  IN IF audienceChildren = {} THEN FALSE
     ELSE IF userName \in childUserNames THEN userName \in audienceChildren
     ELSE IF userName \in parentUserNames
       THEN IF subscription.receive_all THEN TRUE
            ELSE LET trackedChildren ==
                       {trim(v) : v \in parts(subscription.watch_children)} \cap childUserNames
                 IN IF trackedChildren = {} THEN TRUE
                    ELSE trackedChildren \cap audienceChildren # {}
     ELSE FALSE

\* watch_children is the sequence of the parts of the column between its ","
shouldSubscriptionReceiveTask(subscription, audienceChildren) ==
  LET userName == trim(orEmpty(subscription.user_name))
  IN IF audienceChildren = {} THEN FALSE
     ELSE IF userName = "" THEN TRUE
     ELSE IF userName \in childUserNames THEN userName \in audienceChildren
     ELSE IF userName \in parentUserNames
       THEN IF subscription.receive_all THEN TRUE
            ELSE LET trackedChildren ==
                       {trim(v) : v \in parts(subscription.watch_children)} \cap childUserNames
                 IN IF trackedChildren = {} THEN TRUE
                    ELSE trackedChildren \cap audienceChildren # {}
     ELSE FALSE

-----------------------------------------------------------------------------
(* Lead time and window *)

reminderLeadOptions == {5, 10, 15, 30}
defaultReminderLeadMinutes == 10

\* normalizeReminderLeadMinutes taking the nearest option for a number
normalizeReminderLeadMinutesNearest(value) ==
  IF value = Null THEN defaultReminderLeadMinutes
  ELSE CHOOSE o \in reminderLeadOptions :
         \A q \in reminderLeadOptions :
           (IF o < value THEN value - o ELSE o - value)
             <= (IF q < value THEN value - q ELSE q - value)

\* normalizeReminderLeadMinutes handing every number on
normalizeReminderLeadMinutesUnchecked(value) ==
  IF value = Null THEN defaultReminderLeadMinutes ELSE value

normalizeReminderLeadMinutes(value) ==
  IF value \in reminderLeadOptions THEN value ELSE defaultReminderLeadMinutes

\* line 518 without Math.min(15, ...)
windowForwardMinutesUnclamped(raw) ==
  IF raw = Null THEN 15 ELSE IF raw > 0 THEN raw ELSE 0

\* options.windowForwardMinutes: Null when the option is absent
windowForwardMinutesOf(raw) ==
  IF raw = Null THEN 15
  ELSE LET lo == IF raw < 15 THEN raw ELSE 15 IN IF lo > 0 THEN lo ELSE 0

CoarseMax == 45

-----------------------------------------------------------------------------
(* Date and time of a task.                                                *)
(* A time text is [h, m]: the numbers of "H:MM" or "HH:MM", or NoTime when *)
(* the text has another shape.  A day text is [fmt, n, t]: fmt "ymd" for   *)
(* YYYY-MM-DD, "dmy" for DD-MM-YYYY, "iso" for a text starting with        *)
(* YYYY-MM-DDT, "other" for anything else; n is the number of the calendar *)
(* day it names (Null when there is no such day) and t, for "iso", the     *)
(* minute of the day of the instant it names.                              *)

NoTime == [h |-> Null, m |-> Null]
HHMM(h, m) == [h |-> h, m |-> m]
Ymd(n) == [fmt |-> "ymd", n |-> n, t |-> 0]
Dmy(n) == [fmt |-> "dmy", n |-> n, t |-> 0]
Iso(n, t) == [fmt |-> "iso", n |-> n, t |-> t]
NoDay == [fmt |-> "other", n |-> Null, t |-> 0]

parseTimeToMinutes(time) ==
  IF time = NoTime THEN Null
  ELSE IF time.h < 0 \/ time.h > 23 \/ time.m < 0 \/ time.m > 59 THEN Null
  ELSE time.h * 60 + time.m

\* the start as minutes since day 0, 00:00 UTC, or Null
parseTaskStartUtc(day, time) ==
  IF time = NoTime THEN Null
  ELSE IF time.h < 0 \/ time.h > 23 \/ time.m < 0 \/ time.m > 59 THEN Null
  ELSE IF day.fmt = "iso"
    THEN IF day.n = Null THEN Null ELSE day.n * MinutesPerDay + day.t
  ELSE IF day.fmt \in {"ymd", "dmy"}
    THEN IF day.n = Null THEN Null ELSE day.n * MinutesPerDay + time.h * 60 + time.m
  ELSE Null

\* the date of the text as a day number, Null for ""
parseTaskDateKey(day) ==
  IF day.fmt \in {"iso", "ymd", "dmy"} THEN day.n ELSE Null

\* [dateKey, minutes] of the clock in a zone tz minutes east of UTC
getNowInTimeZone(tz, nowHalf) ==
  LET localMin == (nowHalf \div HalfPerMinute) + tz
  IN [dateKey |-> localMin \div MinutesPerDay, minutes |-> localMin % MinutesPerDay]

\* Math.floor((taskStartUtc.getTime() - nowUtcMs) / 60000)
diffMinutesUtc(startMin, nowHalf) == (startMin * HalfPerMinute - nowHalf) \div HalfPerMinute

-----------------------------------------------------------------------------
(* Dispatch store *)

\* `${task.id}:${taskStartUtc.toISOString()}:${reminderLeadMinutes}:${subscription.endpoint}`
dispatchKey(taskId, startMin, lead, endpoint) == <<taskId, startMin, lead, endpoint>>

DispatchRow(key, at) == [dispatch_key |-> key, sent_at |-> at]

\* the primary keys of the table
DispatchKeys == {r.dispatch_key : r \in dispatches}

\* SELECT dispatch_key ... WHERE dispatch_key = ... LIMIT 1
wasReminderDispatched(key) == \E r \in dispatches : r.dispatch_key = key

\* the insert with ON CONFLICT (dispatch_key) DO UPDATE SET sent_at = NOW()
markReminderDispatchedOverwrite(store, key, at) ==
  {r \in store : r.dispatch_key # key} \cup {DispatchRow(key, at)}

\* INSERT ... VALUES (key, NOW()) ON CONFLICT (dispatch_key) DO NOTHING
markReminderDispatched(store, key, at) ==
  IF \E r \in store : r.dispatch_key = key THEN store
  ELSE store \cup {DispatchRow(key, at)}

-----------------------------------------------------------------------------
(* Transport *)

TransportOutcomes == {"delivered", "gone", "error"}

\* getEnv: each key is set (TRUE) or missing or blank (FALSE); cronSecret is the
\* text of CRON_SECRET, NullText when the variable is not set
Envs == [vapidPublicKey : BOOLEAN, vapidPrivateKey : BOOLEAN, cronSecret : {NullText}]
ConfiguredEnv == [vapidPublicKey |-> TRUE, vapidPrivateKey |-> TRUE, cronSecret |-> NullText]

hasPushConfig(e) == e.vapidPublicKey /\ e.vapidPrivateKey

\* initVapid without its test of the keys
initVapidUnchecked(initialized, e) == TRUE

\* the value returned by initVapid; the flag is set when it returns TRUE
initVapid(initialized, e) ==
  IF initialized THEN TRUE
  ELSE IF ~e.vapidPublicKey \/ ~e.vapidPrivateKey THEN FALSE
  ELSE TRUE

\* sendToSubscription with a catch block that hands transient errors on
sendToSubscriptionRethrows(configured, outcome) ==
  IF ~configured
    THEN [ok |-> FALSE, removed |-> FALSE, reason |-> "missing-vapid", threw |-> FALSE]
  ELSE CASE outcome = "delivered" ->
              [ok |-> TRUE, removed |-> FALSE, reason |-> "ok", threw |-> FALSE]
         [] outcome = "gone" ->
              [ok |-> FALSE, removed |-> TRUE, reason |-> "expired-subscription", threw |-> FALSE]
         [] OTHER ->
              [ok |-> FALSE, removed |-> FALSE, reason |-> "send-failed", threw |-> TRUE]

\* how sendToSubscription ends for an outcome of webpush.sendNotification: the value
\* it returns, and threw when it ends with an exception instead (never: every error
\* of the transport is caught)
sendToSubscription(configured, outcome) ==
  IF ~configured
    THEN [ok |-> FALSE, removed |-> FALSE, reason |-> "missing-vapid", threw |-> FALSE]
  ELSE CASE outcome = "delivered" ->
              [ok |-> TRUE, removed |-> FALSE, reason |-> "ok", threw |-> FALSE]
         [] outcome = "gone" ->
              [ok |-> FALSE, removed |-> TRUE, reason |-> "expired-subscription", threw |-> FALSE]
         [] OTHER ->
              [ok |-> FALSE, removed |-> FALSE, reason |-> "send-failed", threw |-> FALSE]

\* removePushSubscription without its DELETE
removePushSubscriptionSkipped(store, endpoint) == store

\* DELETE FROM push_subscriptions WHERE endpoint = ...
removePushSubscription(store, endpoint) == [store EXCEPT ![endpoint] = NoSub]

-----------------------------------------------------------------------------
(* One call of sendUpcomingTaskReminders *)

\* the Authorization header of a request: its first seven characters and the
\* rest; NoHeader is the request without the header (headers.get(...) || "")
Header(prefix, rest) == [prefix |-> prefix, rest |-> rest]
NoHeader == Header("", "")

NoResult == [ok |-> FALSE, removed |-> FALSE, reason |-> "", threw |-> FALSE]

Reasons == {"completed", "already_notified", "notifications_disabled",
            "type_not_eligible", "invalid_date", "date_mismatch", "invalid_time",
            "outside_window", "offset_not_due", "already_dispatched",
            "no_audience_subscriptions", "delivery_failed"}

IdleLocals ==
  [pc |-> "idle", n |-> 0,
   authorization |-> NoHeader,
   windowForwardMinutes |-> 15, strictChildUserOnly |-> FALSE, timeZone |-> Null,
   nowUtc |-> 0, subscriptions |-> <<>>, rows |-> <<>>, todo |-> {}, scanned |-> 0,
   task |-> "", diffMinutes |-> 0, targeted |-> {}, targets |-> {}, endpoint |-> "",
   deliveredForTask |-> 0, hadDueByOffset |-> FALSE, sendResult |-> NoResult,
   sent |-> 0, skippedByReason |-> [r \in Reasons |-> 0]]

\* the WHERE clause of the task load
loadFilter(row) == row.send_notification /\ ~row.completed /\ ~row.notified

diffMinutesOf(task, l) ==
  IF l.timeZone = Null
    THEN diffMinutesUtc(parseTaskStartUtc(task.day, task.time), l.nowUtc)
    ELSE parseTimeToMinutes(task.time) - getNowInTimeZone(l.timeZone, l.nowUtc).minutes

\* the filter of lines 628-640 without the test of strictChildUserOnly
targetSubscriptionsLax(task, l) ==
  {e \in DOMAIN l.subscriptions :
     shouldSubscriptionReceiveTask(l.subscriptions[e], getTaskAudienceChildren(task))}

\* lines 626-640
targetSubscriptions(task, l) ==
  {e \in DOMAIN l.subscriptions :
     /\ shouldSubscriptionReceiveTask(l.subscriptions[e], getTaskAudienceChildren(task))
     /\ (l.strictChildUserOnly =>
           /\ isChildUserName(trim(orEmpty(l.subscriptions[e].user_name)))
           /\ trim(orEmpty(l.subscriptions[e].user_name)) \in normalizeTaskChildNames(task.child))}

\* /שיעור|אנגלית|תגבור|lesson|english|tutoring/i.test(title), for the titles of the model
matchesLessonWord(title) ==
  title \in {"english - karl", "tutoring", "lesson with rachel"}

\* the filter of the earlier revisions of sendUpcomingTaskReminders
shouldSendReminderForTask(task) ==
  LET type == toLowerCase(orEmpty(task.type))
      title == toLowerCase(orEmpty(task.text))
  IN IF type = "lesson" THEN TRUE ELSE matchesLessonWord(title)

\* taskSkipReason with the filter of the earlier revisions after the flags
taskSkipReasonLessonOnly(task, l) ==
  IF task.completed THEN "completed"
  ELSE IF task.notified THEN "already_notified"
  ELSE IF ~task.send_notification THEN "notifications_disabled"
  ELSE IF ~shouldSendReminderForTask(task) THEN "type_not_eligible"
  ELSE IF parseTaskStartUtc(task.day, task.time) = Null THEN "invalid_date"
  ELSE IF parseTimeToMinutes(task.time) = Null THEN "invalid_time"
  ELSE IF l.timeZone # Null
          /\ parseTaskDateKey(task.day) # getNowInTimeZone(l.timeZone, l.nowUtc).dateKey
    THEN "date_mismatch"
  ELSE IF diffMinutesOf(task, l) < 0 \/ diffMinutesOf(task, l) > CoarseMax THEN "outside_window"
  ELSE IF targetSubscriptions(task, l) = {} THEN "no_audience_subscriptions"
  ELSE "none"

\* the reason a loaded task is skipped before its subscriptions are visited, or "none"
taskSkipReason(task, l) ==
  IF task.completed THEN "completed"
  ELSE IF task.notified THEN "already_notified"
  ELSE IF ~task.send_notification THEN "notifications_disabled"
  ELSE IF parseTaskStartUtc(task.day, task.time) = Null THEN "invalid_date"
  ELSE IF parseTimeToMinutes(task.time) = Null THEN "invalid_time"
  ELSE IF l.timeZone # Null
          /\ parseTaskDateKey(task.day) # getNowInTimeZone(l.timeZone, l.nowUtc).dateKey
    THEN "date_mismatch"
  ELSE IF diffMinutesOf(task, l) < 0 \/ diffMinutesOf(task, l) > CoarseMax THEN "outside_window"
  ELSE IF targetSubscriptions(task, l) = {} THEN "no_audience_subscriptions"
  ELSE "none"

\* the fine window without its upper bound
isDueByOffsetNoUpper(diffMinutes, lead, windowForwardMinutes) ==
  ~(diffMinutes < lead)

\* the fine window with its lower bound exclusive
isDueByOffsetExclusive(diffMinutes, lead, windowForwardMinutes) ==
  ~(diffMinutes <= lead \/ diffMinutes > lead + windowForwardMinutes)

\* the fine window of one subscription
isDueByOffset(diffMinutes, lead, windowForwardMinutes) ==
  ~(diffMinutes < lead \/ diffMinutes > lead + windowForwardMinutes)

\* the test of line 686 inverted
recordsDispatchInverted(sendResult) == ~sendResult.ok

\* the test of line 686 left out
recordsDispatchAlways(sendResult) == TRUE

\* line 686: the send results after which the key is recorded and counted
recordsDispatch(sendResult) == sendResult.ok

\* the test of line 698 left out
flagsNotifiedAlways(deliveredForTask) == TRUE

\* the test of line 698 off by one
flagsNotifiedAfterTwo(deliveredForTask) == deliveredForTask > 1

\* line 698: the condition under which the task is flagged notified
flagsNotified(deliveredForTask) == deliveredForTask > 0

\* a skip without its increment
bumpForgotten(l, reason) == l

\* skippedByReason[reason] += 1
bump(l, reason) ==
  [l EXCEPT !.skippedByReason[reason] = l.skippedByReason[reason] + 1]

Options == [windowForwardMinutes : {Null} \cup 0..16, strictChildUserOnly : BOOLEAN,
            timeZone : {Null, 120}]

\* the entry without the return of lines 534-537
startedLocalsNoReturn(o, authorization) ==
  LET present == {e \in Endpoints : subs[e] # NoSub}
  IN [IdleLocals EXCEPT
        !.pc = "loadTasks",
        !.n = sweepNo + 1,
        !.authorization = authorization,
        !.windowForwardMinutes = windowForwardMinutesOf(o.windowForwardMinutes),
        !.strictChildUserOnly = o.strictChildUserOnly,
        !.timeZone = o.timeZone,
        !.nowUtc = now,
        !.subscriptions = [e \in present |-> subs[e]]]

\* the locals after the entry of a call made for a request with the given
\* Authorization header: the clock and the subscription store are read
startedLocals(o, authorization) ==
  LET present == {e \in Endpoints : subs[e] # NoSub}
  IN [IdleLocals EXCEPT
        !.pc = IF present = {} THEN "return" ELSE "loadTasks",
        !.n = sweepNo + 1,
        !.authorization = authorization,
        !.windowForwardMinutes = windowForwardMinutesOf(o.windowForwardMinutes),
        !.strictChildUserOnly = o.strictChildUserOnly,
        !.timeZone = o.timeZone,
        !.nowUtc = now,
        !.subscriptions = [e \in present |-> subs[e]]]

\* entry of a call whose trigger let the request pass
SweepStart(s, o) ==
  /\ sweep[s].pc = "idle"
  /\ sweepNo' = sweepNo + 1
  /\ sweep' = [sweep EXCEPT ![s] = startedLocals(o, NoHeader)]
  /\ UNCHANGED <<now, tasks, subs, dispatches, log, returned, flaggedAt, env, vapidInitialized, registered, ack>>

\* the bulk read of the task store
SweepLoadTasks(s) ==
  /\ sweep[s].pc = "loadTasks"
  /\ LET loaded == {t \in TaskIds : tasks[t] # NoTask /\ loadFilter(tasks[t])}
     IN sweep' = [sweep EXCEPT ![s].pc = "nextTask",
                               ![s].rows = [t \in loaded |-> tasks[t]],
                               ![s].todo = loaded,
                               ![s].scanned = Cardinality(loaded)]
  /\ UNCHANGED <<now, tasks, subs, dispatches, sweepNo, log, returned, flaggedAt, env, vapidInitialized, registered, ack>>

\* head of the task loop: lines 575-649
SweepNextTask(s) ==
  /\ sweep[s].pc = "nextTask"
  /\ IF sweep[s].todo = {}
       THEN sweep' = [sweep EXCEPT ![s].pc = "return"]
       ELSE \E t \in sweep[s].todo :
              LET l == [sweep[s] EXCEPT !.todo = @ \ {t}]
                  row == l.rows[t]
                  reason == taskSkipReason(row, l)
              IN sweep' = [sweep EXCEPT ![s] =
                   IF reason # "none" THEN bump(l, reason)
                   ELSE [l EXCEPT !.pc = "nextSub", !.task = t,
                                  !.diffMinutes = diffMinutesOf(row, l),
                                  !.targeted = targetSubscriptions(row, l),
                                  !.targets = targetSubscriptions(row, l),
                                  !.deliveredForTask = 0,
                                  !.hadDueByOffset = FALSE]]
  /\ UNCHANGED <<now, tasks, subs, dispatches, sweepNo, log, returned, flaggedAt, env, vapidInitialized, registered, ack>>

\* head of the subscription loop: lines 651-659
SweepNextSub(s) ==
  /\ sweep[s].pc = "nextSub"
  /\ IF sweep[s].targets = {}
       THEN sweep' = [sweep EXCEPT ![s].pc = "endTask"]
       ELSE \E e \in sweep[s].targets :
              LET l == [sweep[s] EXCEPT !.targets = @ \ {e}]
                  lead == normalizeReminderLeadMinutes(l.subscriptions[e].reminder_lead_minutes)
              IN sweep' = [sweep EXCEPT ![s] =
                   IF isDueByOffset(l.diffMinutes, lead, l.windowForwardMinutes)
                     THEN [l EXCEPT !.pc = "check", !.endpoint = e, !.hadDueByOffset = TRUE]
                     ELSE l]
  /\ UNCHANGED <<now, tasks, subs, dispatches, sweepNo, log, returned, flaggedAt, env, vapidInitialized, registered, ack>>

currentKey(l) ==
  dispatchKey(l.task, parseTaskStartUtc(l.rows[l.task].day, l.rows[l.task].time),
              normalizeReminderLeadMinutes(l.subscriptions[l.endpoint].reminder_lead_minutes),
              l.endpoint)

\* line 664 as a break: the subscriptions left are not visited
breakAfterDispatched(targets) == {}

\* line 664: continue, the subscriptions left are visited next
continueAfterDispatched(targets) == targets

\* lines 660-665: the read of the dispatch store
SweepCheck(s) ==
  /\ sweep[s].pc = "check"
  /\ sweep' = [sweep EXCEPT ![s] =
       IF wasReminderDispatched(currentKey(sweep[s]))
         THEN [bump(sweep[s], "already_dispatched")
                 EXCEPT !.pc = "nextSub", !.targets = continueAfterDispatched(@)]
         ELSE [sweep[s] EXCEPT !.pc = "send"]]
  /\ UNCHANGED <<now, tasks, subs, dispatches, sweepNo, log, returned, flaggedAt, env, vapidInitialized, registered, ack>>

\* lines 674-684: the call of sendToSubscription; without the VAPID keys the
\* transport is not called, otherwise outcome is what the push service does
SweepSend(s, outcome) ==
  /\ sweep[s].pc = "send"
  /\ LET l == sweep[s]
         configured == initVapid(vapidInitialized, env)
         sendResult == sendToSubscription(configured, outcome)
     IN /\ vapidInitialized' = IF configured THEN TRUE ELSE vapidInitialized
        /\ log' = IF configured
                    THEN log \cup {[n |-> l.n, key |-> currentKey(l),
                                    diffMinutes |-> l.diffMinutes, outcome |-> outcome]}
                    ELSE log
        /\ sweep' = [sweep EXCEPT ![s].sendResult = sendResult,
                                  ![s].pc = IF sendResult.threw THEN "failed"
                                            ELSE IF sendResult.removed THEN "remove"
                                            ELSE "sent"]
  /\ UNCHANGED <<now, tasks, subs, dispatches, sweepNo, returned, flaggedAt, env, registered, ack>>

\* line 259: the delete of an expired subscription
SweepRemove(s) ==
  /\ sweep[s].pc = "remove"
  /\ subs' = removePushSubscription(subs, sweep[s].endpoint)
  /\ sweep' = [sweep EXCEPT ![s].pc = "sent"]
  /\ UNCHANGED <<now, tasks, dispatches, sweepNo, log, returned, flaggedAt, env, vapidInitialized, registered, ack>>

\* lines 686-689: the test of the send result and the insert into the dispatch store
SweepMark(s) ==
  /\ sweep[s].pc = "sent"
  /\ IF recordsDispatch(sweep[s].sendResult)
       THEN /\ dispatches' = markReminderDispatched(dispatches, currentKey(sweep[s]), now)
            /\ sweep' = [sweep EXCEPT ![s].pc = "nextSub",
                                      ![s].deliveredForTask = @ + 1]
       ELSE /\ dispatches' = dispatches
            /\ sweep' = [sweep EXCEPT ![s].pc = "nextSub"]
  /\ UNCHANGED <<now, tasks, subs, sweepNo, log, returned, flaggedAt, env, vapidInitialized, registered, ack>>

\* lines 692-710: the end of one task, with the update of its notified flag
SweepEndTask(s) ==
  /\ sweep[s].pc = "endTask"
  /\ LET l == sweep[s]
     IN IF ~l.hadDueByOffset
          THEN /\ sweep' = [sweep EXCEPT ![s] = [bump(l, "offset_not_due") EXCEPT !.pc = "nextTask"]]
               /\ UNCHANGED tasks
          ELSE IF flagsNotified(l.deliveredForTask)
            THEN /\ tasks' = IF tasks[l.task] = NoTask THEN tasks
                             ELSE [tasks EXCEPT ![l.task].notified = TRUE,
                                                ![l.task].updated_at = now]
                 /\ sweep' = [sweep EXCEPT ![s].pc = "nextTask",
                                           ![s].sent = @ + l.deliveredForTask]
            ELSE /\ sweep' = [sweep EXCEPT ![s] = [bump(l, "delivery_failed") EXCEPT !.pc = "nextTask"]]
                 /\ UNCHANGED tasks
  /\ flaggedAt' = [t \in TaskIds |->
                     IF tasks[t] # NoTask /\ ~tasks[t].notified /\ tasks'[t].notified
                       THEN sweepNo ELSE flaggedAt[t]]
  /\ UNCHANGED <<now, subs, dispatches, sweepNo, log, returned, env, vapidInitialized, registered, ack>>

\* lines 713-733 (and 536): the call ends and hands its summary back to the
\* trigger, or hands on the exception that ended it
SweepReturn(s) ==
  /\ sweep[s].pc \in {"return", "failed"}
  /\ returned' = IF sweep[s].pc = "failed" THEN returned
                 ELSE returned \cup {[n |-> sweep[s].n, scanned |-> sweep[s].scanned,
                                      sent |-> sweep[s].sent,
                                      skippedByReason |-> sweep[s].skippedByReason,
                                      nowUtc |-> sweep[s].nowUtc,
                                      windowForwardMinutes |-> sweep[s].windowForwardMinutes,
                                      timeZone |-> sweep[s].timeZone]}
  /\ sweep' = [sweep EXCEPT ![s] = IdleLocals]
  /\ UNCHANGED <<now, tasks, subs, dispatches, sweepNo, log, flaggedAt, env, vapidInitialized, registered, ack>>

\* the platform ends the function at one of its awaits: the locals are lost and
\* no summary is returned; what the call wrote to the stores stays
SweepCutOff(s) ==
  /\ sweep[s].pc # "idle"
  /\ sweep' = [sweep EXCEPT ![s] = IdleLocals]
  /\ UNCHANGED <<now, tasks, subs, dispatches, sweepNo, log, returned, flaggedAt, env, vapidInitialized, registered, ack>>

SweepSteps(s) ==
  \/ SweepLoadTasks(s)
  \/ SweepNextTask(s)
  \/ SweepNextSub(s)
  \/ SweepCheck(s)
  \/ SweepMark(s)
  \/ SweepEndTask(s)
  \/ SweepReturn(s)

-----------------------------------------------------------------------------
(* The clock and the writers of the task store *)

Advance(d) ==
  /\ now' = now + d
  /\ UNCHANGED <<tasks, subs, dispatches, sweep, sweepNo, log, returned, flaggedAt, env, vapidInitialized, registered, ack>>

Tick == Advance(1)

\* POST /api/push/confirm: sets completed, then notifies the subscriptions of the
\* parent he_roi; gone is the set of those the push service reports as expired
Confirm(eventId, gone) ==
  /\ tasks[eventId] # NoTask
  /\ LET targets == {e \in Endpoints : subs[e] # NoSub
                                         /\ trim(orEmpty(subs[e].user_name)) = "he_roi"}
         configured == initVapid(vapidInitialized, env)
     IN /\ gone \subseteq targets
        /\ ~configured => gone = {}
        /\ vapidInitialized' = IF configured /\ targets # {} THEN TRUE ELSE vapidInitialized
  /\ tasks' = [tasks EXCEPT ![eventId].completed = TRUE, ![eventId].updated_at = now]
  /\ subs' = [e \in Endpoints |-> IF e \in gone THEN NoSub ELSE subs[e]]
  /\ UNCHANGED <<now, dispatches, sweep, sweepNo, log, returned, flaggedAt, env, registered, ack>>

\* POST of the acknowledgement endpoint, the route that answers alreadyConfirmed
\* (the service worker posts its acknowledgements to /api/notifications/ack).
\* The locals of a request: row is whether the UPDATE returned a row,
\* calledParents whether sendPushToParents was called, pushed the endpoints the
\* transport was called for, answer the response.
NoAnswer == [status |-> 0, alreadyConfirmed |-> FALSE]
Answer(status, alreadyConfirmed) == [status |-> status, alreadyConfirmed |-> alreadyConfirmed]

IdleAck == [pc |-> "idle", eventId |-> "", row |-> FALSE, calledParents |-> FALSE,
            pushed |-> {}, answer |-> NoAnswer]
IdleAcks == [a \in AckIds |-> IdleAck]

\* the request arrives: the body is read; without eventId the answer is 400
AckPost(a, eventId) ==
  /\ ack[a].pc = "idle" /\ ack[a].answer = NoAnswer
  /\ ack' = [ack EXCEPT ![a] =
       IF trim(eventId) = ""
         THEN [IdleAck EXCEPT !.pc = "done", !.answer = Answer(400, FALSE)]
         ELSE [IdleAck EXCEPT !.pc = "update", !.eventId = trim(eventId)]]
  /\ UNCHANGED <<now, tasks, subs, dispatches, sweep, sweepNo, log, returned, flaggedAt,
                 env, vapidInitialized, registered>>

\* the WHERE clause of the UPDATE without its test of completed
ackUpdateMatchesCompleted(row) == row # NoTask

\* WHERE id = ... AND COALESCE(completed, FALSE) = FALSE
ackUpdateMatches(row) == row # NoTask /\ ~row.completed

\* UPDATE family_schedule SET completed = TRUE, updated_at = NOW() ... RETURNING
AckUpdate(a) ==
  /\ ack[a].pc = "update"
  /\ IF ackUpdateMatches(tasks[ack[a].eventId])
       THEN /\ tasks' = [tasks EXCEPT ![ack[a].eventId].completed = TRUE,
                                      ![ack[a].eventId].updated_at = now]
            /\ ack' = [ack EXCEPT ![a].pc = "notify", ![a].row = TRUE]
       ELSE /\ tasks' = tasks
            /\ ack' = [ack EXCEPT ![a].pc = "select"]
  /\ UNCHANGED <<now, subs, dispatches, sweep, sweepNo, log, returned, flaggedAt,
                 env, vapidInitialized, registered>>

\* no row was updated: SELECT ... WHERE id = ... LIMIT 1, then 404 or alreadyConfirmed
AckSelect(a) ==
  /\ ack[a].pc = "select"
  /\ ack' = [ack EXCEPT ![a].pc = "done",
                        ![a].answer = IF tasks[ack[a].eventId] = NoTask
                                        THEN Answer(404, FALSE)
                                        ELSE Answer(200, TRUE)]
  /\ UNCHANGED <<now, tasks, subs, dispatches, sweep, sweepNo, log, returned, flaggedAt,
                 env, vapidInitialized, registered>>

\* a row was updated: sendPushToParents to both parents and, when that sent
\* nothing, sendPushToAll.  ok and gone are the endpoints at which the push service
\* delivers and those it reports as expired; every endpoint a send is made to and
\* finds expired is removed.
AckNotify(a, ok, gone) ==
  /\ ack[a].pc = "notify"
  /\ ok \cap gone = {}
  /\ LET configured == initVapid(vapidInitialized, env)
         present == {e \in Endpoints : subs[e] # NoSub}
         parents == {e \in present : isParentUserName(trim(orEmpty(subs[e].user_name)))}
         sent == IF configured THEN parents \cap ok ELSE {}
         left == IF configured THEN present \ (parents \cap gone) ELSE present
         all == IF sent = {} THEN left ELSE {}
         called == IF configured THEN parents \cup all ELSE {}
     IN /\ ok \cup gone \subseteq called
        /\ vapidInitialized' = IF configured /\ called # {} THEN TRUE ELSE vapidInitialized
        /\ subs' = [e \in Endpoints |-> IF e \in called \cap gone THEN NoSub ELSE subs[e]]
        /\ ack' = [ack EXCEPT ![a].pc = "done", ![a].calledParents = TRUE,
                              ![a].pushed = called,
                              ![a].answer = Answer(200, FALSE)]
  /\ UNCHANGED <<now, tasks, dispatches, sweep, sweepNo, log, returned, flaggedAt,
                 env, registered>>

\* upsertScheduleEvent: INSERT ... ON CONFLICT (id) DO UPDATE; the notified column
\* is not among the written columns and defaults to FALSE on insert; updated_at
\* is NOW(), kept here as the clock in half minutes
upsertScheduleEvent(incoming) ==
  /\ tasks' = [tasks EXCEPT ![incoming.eventId] =
       [day |-> incoming.date, time |-> incoming.time, child |-> incoming.child,
        type |-> incoming.type, text |-> incoming.title,
        completed |-> incoming.completed, send_notification |-> incoming.sendNotification,
        notified |-> IF tasks[incoming.eventId] = NoTask THEN FALSE
                     ELSE tasks[incoming.eventId].notified,
        updated_at |-> now]]
  /\ UNCHANGED <<now, subs, dispatches, sweep, sweepNo, log, returned, flaggedAt, env, vapidInitialized, registered, ack>>

\* line 182 accepting every name
isAllowedUserNameAny(value) == TRUE

\* line 182: childNameSet.has(userNameRaw) || parentNameSet.has(userNameRaw)
isAllowedUserName(value) == value \in childUserNames \/ value \in parentUserNames

\* [...new Set(values)] left out
uniqueValuesKept(values) == values

\* [...new Set(values)]: the first occurrence of every value, in order
uniqueValues(values) ==
  LET firsts == {i \in 1..Len(values) : \A j \in 1..(i - 1) : values[j] # values[i]}
      nth(k) == CHOOSE i \in firsts : Cardinality({j \in firsts : j <= i}) = k
  IN [k \in 1..Cardinality(firsts) |-> values[nth(k)]]

\* the row that savePushSubscription writes for the body of a request: lines 181-202
storedSubscription(meta) ==
  LET userNameRaw == trim(meta.userName)
      userName == IF isAllowedUserName(userNameRaw) THEN userNameRaw ELSE NullText
      trimmed == [i \in 1..Len(meta.watchChildren) |-> trim(meta.watchChildren[i])]
      watchChildren == SelectSeq(trimmed, LAMBDA value : value \in childUserNames)
      isParent == userName \in parentUserNames
      receiveAll == IF isParent THEN meta.receiveAll ELSE FALSE
  IN [keys |-> trim(meta.keys),
      user_name |-> userName,
      receive_all |-> receiveAll,
      watch_children |-> IF isParent /\ ~receiveAll THEN uniqueValues(watchChildren)
                         ELSE NullList,
      reminder_lead_minutes |-> normalizeReminderLeadMinutes(meta.reminderLeadMinutes)]

\* the upsert with ON CONFLICT (endpoint) DO NOTHING
upsertSubscriptionKeepOld(store, endpoint, row) ==
  IF store[endpoint] # NoSub THEN store ELSE [store EXCEPT ![endpoint] = row]

\* INSERT ... ON CONFLICT (endpoint) DO UPDATE SET every column = EXCLUDED's
upsertSubscription(store, endpoint, row) == [store EXCEPT ![endpoint] = row]

\* savePushSubscription called by POST of the subscribe route; a body without
\* endpoint or keys throws before the store is touched
savePushSubscription(endpoint, meta) ==
  /\ trim(meta.keys) # ""
  /\ subs' = upsertSubscription(subs, endpoint, storedSubscription(meta))
  /\ registered' = [registered EXCEPT ![endpoint] = meta]
  /\ UNCHANGED <<now, tasks, dispatches, sweep, sweepNo, log, returned, flaggedAt,
                 env, vapidInitialized, ack>>

\* DELETE of the subscribe route
Unsubscribe(endpoint) ==
  /\ subs[endpoint] # NoSub
  /\ subs' = removePushSubscription(subs, endpoint)
  /\ UNCHANGED <<now, tasks, dispatches, sweep, sweepNo, log, returned, flaggedAt,
                 env, vapidInitialized, registered, ack>>

-----------------------------------------------------------------------------
(* Scenario data *)

\* day 1, 14:00
RefDay == Ymd(1)
RefTime == HHMM(14, 0)
RefStart == parseTaskStartUtc(RefDay, RefTime)

\* a task of type lesson; type and text are COALESCE(event_type, type) and
\* COALESCE(title, text)
TaskRow(day, time, child, completed, send, notified) ==
  [day |-> day, time |-> time, child |-> child,
   type |-> "lesson", text |-> "english - karl", completed |-> completed,
   send_notification |-> send, notified |-> notified, updated_at |-> 0]

\* keys stands for the pair p256dh, auth
SubRow(user, all, watch, lead) ==
  [keys |-> "k0", user_name |-> user, receive_all |-> all, watch_children |-> watch,
   reminder_lead_minutes |-> lead]

IdleSweeps == [s \in Sweepers |-> IdleLocals]

\* the instants at which RefStart is d minutes (and h half minutes more) ahead
InstantsBefore(start, diffs) == {(start - d) * HalfPerMinute - h : d \in diffs, h \in {0, 1}}

-----------------------------------------------------------------------------
(* SpecWindow: single sweeps over one task and one audience subscription,  *)
(* at every distance from the start and with every lead time.              *)

MaxWindowSweeps == 1

WindowOptions == {o \in Options : /\ o.windowForwardMinutes \in {Null, 0, 7, 16}
                                  /\ ~o.strictChildUserOnly}

InitWindow ==
  /\ now \in InstantsBefore(RefStart, (-1)..47) \cup InstantsBefore(RefStart - 120, (-1)..47)
  /\ tasks = [t \in TaskIds |->
                IF t = "t1" THEN TaskRow(RefDay, RefTime, <<"alin">>, FALSE, TRUE, FALSE)
                ELSE NoTask]
  /\ \E lead \in reminderLeadOptions \cup {7} :
       /\ subs = [e \in Endpoints |->
                    IF e = "e1" THEN SubRow("he_alin", FALSE, <<>>, lead)
                    ELSE SubRow("he_ravid", FALSE, <<>>, 10)]
       /\ dispatches \in {{}, {DispatchRow(dispatchKey("t1", RefStart,
                                                normalizeReminderLeadMinutes(lead), "e1"), 0)}}
  /\ sweep = IdleSweeps
  /\ sweepNo = 0
  /\ log = {}
  /\ returned = {}
  /\ flaggedAt = [t \in TaskIds |-> 0]
  /\ env = ConfiguredEnv
  /\ vapidInitialized = FALSE
  /\ registered = NoRegistrations
  /\ ack = IdleAcks

NextWindow ==
  \/ \E o \in WindowOptions : sweepNo < MaxWindowSweeps /\ SweepStart("s1", o)
  \/ SweepSteps("s1")
  \/ \E outcome \in TransportOutcomes : SweepSend("s1", outcome)
  \/ SweepRemove("s1")

SpecWindow == InitWindow /\ [][NextWindow]_vars

\* the keys a completed or running sweep n called the transport for
AttemptedBy(n) == {x.key : x \in {y \in log : y.n = n}}

\* the keys sweep n delivered
DeliveredBy(n) == {x.key : x \in {y \in log : y.n = n /\ y.outcome = "delivered"}}

\* was the task's notified flag set when sweep n was invoked
NotifiedBefore(t, n) == tasks[t].notified /\ flaggedAt[t] < n

\* start - now lies in [lo, hi + 1) minutes, on the clock of the sweep's mode;
\* in the zone mode the task's date is the zone's date of today
WithinMinutes(task, nowHalf, tz, lo, hi) ==
  IF tz = Null
    THEN /\ lo * HalfPerMinute <= parseTaskStartUtc(task.day, task.time) * HalfPerMinute - nowHalf
         /\ parseTaskStartUtc(task.day, task.time) * HalfPerMinute - nowHalf < (hi + 1) * HalfPerMinute
    ELSE /\ parseTaskDateKey(task.day) = getNowInTimeZone(tz, nowHalf).dateKey
         /\ getNowInTimeZone(tz, nowHalf).minutes + lo <= parseTimeToMinutes(task.time)
         /\ parseTimeToMinutes(task.time) <= getNowInTimeZone(tz, nowHalf).minutes + hi

\* C10: a sweep that ran to its end called the transport for an eligible task and
\* an in-audience subscription without dispatch record iff L <= diffMinutes <= L + W,
\* both bounds included, L being the normalised lead time of the subscription.
C10_WindowInclusive ==
  \A s \in Sweepers : sweep[s].pc = "return" =>
    \A t \in TaskIds, e \in DOMAIN sweep[s].subscriptions :
      LET l == sweep[s]
          lead == normalizeReminderLeadMinutes(l.subscriptions[e].reminder_lead_minutes)
          key == dispatchKey(t, parseTaskStartUtc(tasks[t].day, tasks[t].time), lead, e)
      IN (/\ tasks[t] # NoTask
          /\ ~tasks[t].completed /\ tasks[t].send_notification /\ ~NotifiedBefore(t, l.n)
          /\ parseTaskStartUtc(tasks[t].day, tasks[t].time) # Null
          /\ shouldSubscriptionReceiveTask(l.subscriptions[e], getTaskAudienceChildren(tasks[t]))
          /\ (~wasReminderDispatched(key) \/ key \in DeliveredBy(l.n)))
         => (key \in AttemptedBy(l.n)
               <=> WithinMinutes(tasks[t], l.nowUtc, l.timeZone, lead, lead + l.windowForwardMinutes))

\* a sweep called the transport with diffMinutes = L = 10 (the 13:50 scenario)
C10_Witness ==
  \E s \in Sweepers :
    /\ sweep[s].pc = "return"
    /\ \E x \in log : /\ x.n = sweep[s].n
                      /\ x.key = dispatchKey("t1", RefStart, 10, "e1")
                      /\ x.diffMinutes = 10
                      /\ x.outcome = "delivered"
                      /\ wasReminderDispatched(x.key)
                      /\ now = (RefStart - 10) * HalfPerMinute

-----------------------------------------------------------------------------
(* SpecRepeat: sweeps one after another with a transport that always       *)
(* delivers; the clock moves between the sweeps and nothing else writes.   *)

Idle == \A s \in Sweepers : sweep[s].pc = "idle"

\* the instant of the first sweep
FirstSweepAt == CHOOSE n \in {r.nowUtc : r \in {q \in returned : q.n = 1}} : TRUE

RepeatOptions == {o \in Options : /\ o.windowForwardMinutes \in {Null, 2}
                                  /\ ~o.strictChildUserOnly
                                  /\ o.timeZone = Null}

InitRepeat ==
  /\ now \in InstantsBefore(RefStart, {10, 11, 12, 13, 26})
  /\ \E child \in {<<"alin">>, <<"amit", "alin">>}, completed \in BOOLEAN, send \in BOOLEAN,
        second \in {NoTask, TaskRow(RefDay, HHMM(14, 5), <<"alin">>, FALSE, TRUE, FALSE)} :
       tasks = [t \in TaskIds |->
                  IF t = "t1" THEN TaskRow(RefDay, RefTime, child, completed, send, FALSE)
                  ELSE second]
  /\ \E lead \in {5, 10}, other \in {NoSub, SubRow("", FALSE, <<>>, 10), SubRow("", FALSE, <<>>, 30)} :
       subs = [e \in Endpoints |->
                 IF e = "e1" THEN SubRow("he_alin", FALSE, <<>>, lead) ELSE other]
  /\ dispatches = {}
  /\ sweep = IdleSweeps
  /\ sweepNo = 0
  /\ log = {}
  /\ returned = {}
  /\ flaggedAt = [t \in TaskIds |-> 0]
  /\ env = ConfiguredEnv
  /\ vapidInitialized = FALSE
  /\ registered = NoRegistrations
  /\ ack = IdleAcks

NextRepeat ==
  \/ \E o \in RepeatOptions : sweepNo < MaxSweeps /\ SweepStart("s1", o)
  \/ SweepSteps("s1")
  \/ SweepSend("s1", "delivered")
  \/ (Idle /\ returned # {} /\ now < FirstSweepAt + MaxTicks /\ Tick)

SpecRepeat == InitRepeat /\ [][NextRepeat]_vars

\* C1: after N >= 1 sweeps run one after another, at each of which the task was
\* due for the subscription, with a transport that always delivers and no other
\* writer, exactly one message was delivered for the key, by the first sweep, the
\* key is recorded, and no later sweep called the transport for it.
C1_OncePerKey ==
  \A t \in TaskIds, e \in Endpoints :
    (/\ Idle /\ returned # {}
     /\ tasks[t] # NoTask /\ subs[e] # NoSub
     /\ ~tasks[t].completed /\ tasks[t].send_notification
     /\ shouldSubscriptionReceiveTask(subs[e], getTaskAudienceChildren(tasks[t]))
     /\ \A r \in returned :
          WithinMinutes(tasks[t], r.nowUtc, r.timeZone,
                        normalizeReminderLeadMinutes(subs[e].reminder_lead_minutes),
                        normalizeReminderLeadMinutes(subs[e].reminder_lead_minutes)
                          + r.windowForwardMinutes))
    => LET key == dispatchKey(t, parseTaskStartUtc(tasks[t].day, tasks[t].time),
                              normalizeReminderLeadMinutes(subs[e].reminder_lead_minutes), e)
       IN /\ Cardinality({x \in log : x.key = key /\ x.outcome = "delivered"}) = 1
          /\ \A x \in log : x.key = key => x.n = 1
          /\ wasReminderDispatched(key)
          /\ Cardinality({r \in dispatches : r.dispatch_key = key}) = 1

\* three sweeps, the later ones 30 and 60 seconds after the first, all with the
\* task due for e1: one delivery
C1_Witness ==
  /\ Idle
  /\ Cardinality(returned) = 3
  /\ now = FirstSweepAt + 2
  /\ \A r \in returned : WithinMinutes(tasks["t1"], r.nowUtc, r.timeZone, 10, 10 + r.windowForwardMinutes)
  /\ \E r \in returned : r.n = 2 /\ r.nowUtc = FirstSweepAt + 1
  /\ subs["e1"].reminder_lead_minutes = 10
  /\ wasReminderDispatched(dispatchKey("t1", RefStart, 10, "e1"))
  /\ Cardinality({x \in log : x.key = dispatchKey("t1", RefStart, 10, "e1")}) = 1

-----------------------------------------------------------------------------
(* SpecOverlap: two triggers may run their sweeps at the same time, every  *)
(* send may be delivered, fail or find the endpoint gone, and tasks are    *)
(* acknowledged meanwhile.  The clock stands at 13:50.                     *)

MaxOverlapSweeps == 2

DefaultOptions == [windowForwardMinutes |-> Null, strictChildUserOnly |-> FALSE, timeZone |-> Null]

InitOverlap ==
  /\ now = (RefStart - 10) * HalfPerMinute
  /\ tasks = [t \in TaskIds |->
                IF t = "t1" THEN TaskRow(RefDay, RefTime, <<"alin">>, FALSE, TRUE, FALSE)
                ELSE NoTask]
  /\ \E other \in {NoSub, SubRow("", FALSE, <<>>, 10), SubRow("he_roi", TRUE, <<>>, 10)} :
       subs = [e \in Endpoints |->
                 IF e = "e1" THEN SubRow("he_alin", FALSE, <<>>, 10) ELSE other]
  /\ dispatches = {}
  /\ sweep = IdleSweeps
  /\ sweepNo = 0
  /\ log = {}
  /\ returned = {}
  /\ flaggedAt = [t \in TaskIds |-> 0]
  /\ env = ConfiguredEnv
  /\ vapidInitialized = FALSE
  /\ registered = NoRegistrations
  /\ ack = IdleAcks

NextOverlap ==
  \/ \E s \in Sweepers : sweepNo < MaxOverlapSweeps /\ SweepStart(s, DefaultOptions)
  \/ \E s \in Sweepers : SweepSteps(s)
  \/ \E s \in Sweepers, outcome \in TransportOutcomes : SweepSend(s, outcome)
  \/ \E s \in Sweepers : SweepRemove(s)
  \/ \E t \in TaskIds, gone \in SUBSET Endpoints : Confirm(t, gone)

SpecOverlap == InitOverlap /\ [][NextOverlap]_vars

-----------------------------------------------------------------------------
(* SpecFlag: overlapping sweeps while the schedule editor saves the task   *)
(* again, with its time kept or moved by five minutes.                     *)

InitFlag ==
  /\ now = (RefStart - 10) * HalfPerMinute
  /\ tasks = [t \in TaskIds |->
                IF t = "t1" THEN TaskRow(RefDay, RefTime, <<"alin">>, FALSE, TRUE, FALSE)
                ELSE NoTask]
  /\ \E other \in {NoSub, SubRow("", FALSE, <<>>, 10)} :
       subs = [e \in Endpoints |->
                 IF e = "e1" THEN SubRow("he_alin", FALSE, <<>>, 10) ELSE other]
  /\ dispatches = {}
  /\ sweep = IdleSweeps
  /\ sweepNo = 0
  /\ log = {}
  /\ returned = {}
  /\ flaggedAt = [t \in TaskIds |-> 0]
  /\ env = ConfiguredEnv
  /\ vapidInitialized = FALSE
  /\ registered = NoRegistrations
  /\ ack = IdleAcks

NextFlag ==
  \/ \E s \in Sweepers : sweepNo < MaxOverlapSweeps /\ SweepStart(s, DefaultOptions)
  \/ \E s \in Sweepers : SweepSteps(s)
  \/ \E s \in Sweepers, outcome \in {"delivered", "error"} : SweepSend(s, outcome)
  \/ \E time \in {RefTime, HHMM(14, 5)} :
       upsertScheduleEvent([eventId |-> "t1", date |-> RefDay, time |-> time,
                            child |-> <<"alin">>, type |-> "lesson",
                               title |-> "english - karl", completed |-> FALSE,
                            sendNotification |-> TRUE])

SpecFlag == InitFlag /\ [][NextFlag]_vars

-----------------------------------------------------------------------------
(* Claims on overlapping sweeps *)

Delivered(key) == {x \in log : x.key = key /\ x.outcome = "delivered"}

\* C2: under every interleaving of two overlapping sweeps at most one message
\* is delivered per dispatch key.
C2_AtMostOneDelivery ==
  \A x \in log : Cardinality(Delivered(x.key)) <= 1

\* C3: when two sweeps both delivered and recorded the same key (and nothing else),
\* one dispatch record results and the key is counted once in their sent totals.
C3_CountedOnce ==
  \A r1, r2 \in returned :
    (r1.n < r2.n /\ DeliveredBy(r1.n) # {} /\ DeliveredBy(r1.n) = DeliveredBy(r2.n)
       /\ Cardinality(DeliveredBy(r1.n)) = 1)
    => /\ DeliveredBy(r1.n) \subseteq DispatchKeys
       /\ Cardinality({r \in dispatches : r.dispatch_key \in DeliveredBy(r1.n)}) = 1
       /\ r1.sent + r2.sent = 1

\* C4: a dispatch record is only ever created for a key that was delivered; the
\* step a sweep takes after a transient failure changes no store and counts no
\* delivery, the step after an expired endpoint creates no record either, and a
\* sweep without delivery for a task leaves the task's flags as they are.
C4_FailedSendNotRecorded ==
  [][/\ \A r \in dispatches' \ dispatches : Delivered(r.dispatch_key) # {}
     /\ \A s \in Sweepers :
          (sweep[s].pc = "sent" /\ sweep'[s] # sweep[s] /\ ~sweep[s].sendResult.ok)
            => /\ dispatches' = dispatches
               /\ tasks' = tasks
               /\ sweep'[s].deliveredForTask = sweep[s].deliveredForTask
               /\ (sweep[s].sendResult.reason = "send-failed" => subs' = subs)
     /\ \A s \in Sweepers :
          (sweep[s].pc = "send" /\ sweep'[s].pc = "remove")
            => \E x \in log' \ log : x.outcome = "gone"
     /\ \A s \in Sweepers :
          (sweep[s].pc = "endTask" /\ sweep'[s] # sweep[s]
             /\ ~\E x \in log : x.n = sweep[s].n /\ x.key[1] = sweep[s].task
                                /\ x.outcome = "delivered")
            => tasks' = tasks
    ]_vars

\* a sweep returned after its only send failed with a transient error: no record,
\* the subscription and the task as before
C4_Witness ==
  /\ \E r \in returned : r.n = 1 /\ r.skippedByReason["delivery_failed"] = 1
  /\ \E x \in log : x.n = 1 /\ x.outcome = "error" /\ ~wasReminderDispatched(x.key)
  /\ \A x \in log : x.n = 1 => x.outcome = "error"
  /\ subs["e1"] # NoSub
  /\ ~tasks["t1"].notified
  /\ dispatches = {}

\* C9: at the moment of every send the task is not completed and has its
\* notifications enabled.
C9_NoSendWhenCompleted ==
  [][\A x \in log' \ log :
       /\ tasks[x.key[1]] # NoTask
       /\ ~tasks[x.key[1]].completed
       /\ tasks[x.key[1]].send_notification]_vars

\* C8: a sweep that delivered for a task sets its notified flag at the end of the
\* task; the flag stays set, and every transport call for the task is made by a
\* sweep invoked before the flag was set.
C8_NotifiedSilences ==
  [][/\ \A s \in Sweepers :
          (sweep[s].pc = "endTask" /\ sweep'[s].pc # "endTask"
             /\ \E x \in log : x.n = sweep[s].n /\ x.key[1] = sweep[s].task
                               /\ x.outcome = "delivered")
            => tasks'[sweep[s].task].notified
     /\ \A t \in TaskIds :
          (tasks[t] # NoTask /\ tasks[t].notified)
            => /\ tasks'[t] # NoTask /\ tasks'[t].notified
               /\ \A x \in log' : x.key[1] = t => x.n <= flaggedAt'[t]
    ]_vars

\* sweep 1 delivered and flagged the task; the task was then moved to 14:05, which
\* is due again for e1, and sweep 2 ran to its end without loading it
C8_Witness ==
  /\ Idle
  /\ tasks["t1"].notified /\ flaggedAt["t1"] = 1
  /\ tasks["t1"].time = HHMM(14, 5)
  /\ \E r \in returned : r.n = 2 /\ r.scanned = 0
  /\ \E x \in log : x.n = 1 /\ x.outcome = "delivered"
  /\ \A x \in log : x.n = 1

-----------------------------------------------------------------------------
(* SpecRetry: sweeps one after another with an unreliable transport.       *)

NextRetry ==
  \/ (sweepNo < MaxSweeps /\ SweepStart("s1", DefaultOptions))
  \/ SweepSteps("s1")
  \/ \E outcome \in TransportOutcomes : SweepSend("s1", outcome)
  \/ SweepRemove("s1")
  \/ (Idle /\ returned # {} /\ now < FirstSweepAt + MaxTicks /\ Tick)

SpecRetry == InitOverlap /\ [][NextRetry]_vars

\* C5: a send that failed with a transient error in one sweep is attempted again
\* by the next sweep when the task is still not completed, still has notifications
\* enabled, the subscription still exists and diffMinutes is still in [L, L + W].
C5_RetriedNextSweep ==
  \A s \in Sweepers : sweep[s].pc = "return" =>
    \A x \in log :
      (/\ x.n + 1 = sweep[s].n
       /\ x.outcome = "error"
       /\ tasks[x.key[1]] # NoTask
       /\ ~tasks[x.key[1]].completed /\ tasks[x.key[1]].send_notification
       /\ x.key[4] \in DOMAIN sweep[s].subscriptions
       /\ WithinMinutes(tasks[x.key[1]], sweep[s].nowUtc, sweep[s].timeZone,
                        x.key[3], x.key[3] + sweep[s].windowForwardMinutes))
      => \E y \in log : y.n = sweep[s].n /\ y.key[1] = x.key[1] /\ y.key[4] = x.key[4]

-----------------------------------------------------------------------------
(* SpecMinutely: one sweep every minute from 47 minutes before the start   *)
(* until the start has passed, for two subscriptions with different lead   *)
(* times; the transport always delivers.                                   *)

SweptNow == \E r \in returned : r.nowUtc = now

InitMinutely ==
  /\ now \in InstantsBefore(RefStart, {MinutesAhead})
  /\ tasks = [t \in TaskIds |->
                IF t = "t1" THEN TaskRow(RefDay, RefTime, <<"alin">>, FALSE, TRUE, FALSE)
                ELSE NoTask]
  /\ \E l1 \in reminderLeadOptions, l2 \in reminderLeadOptions :
       /\ l1 > l2
       /\ subs = [e \in Endpoints |->
                    IF e = "e1" THEN SubRow("he_alin", FALSE, <<>>, l1)
                    ELSE SubRow("he_sivan", TRUE, <<>>, l2)]
  /\ dispatches = {}
  /\ sweep = IdleSweeps
  /\ sweepNo = 0
  /\ log = {}
  /\ returned = {}
  /\ flaggedAt = [t \in TaskIds |-> 0]
  /\ env = ConfiguredEnv
  /\ vapidInitialized = FALSE
  /\ registered = NoRegistrations
  /\ ack = IdleAcks

NextMinutely ==
  \/ (~SweptNow /\ SweepStart("s1", DefaultOptions))
  \/ SweepSteps("s1")
  \/ SweepSend("s1", "delivered")
  \/ (Idle /\ SweptNow /\ now < RefStart * HalfPerMinute /\ Advance(HalfPerMinute))

SpecMinutely == InitMinutely /\ [][NextMinutely]_vars

\* C6: once the start has passed, each of the two subscriptions has received
\* exactly one reminder for the task, at a sweep inside its own window.
C6_EachLeadTimeReminded ==
  (Idle /\ SweptNow /\ now >= RefStart * HalfPerMinute) =>
    \A e \in Endpoints :
      /\ Cardinality({x \in log : x.key[1] = "t1" /\ x.key[4] = e /\ x.outcome = "delivered"}) = 1
      /\ \A x \in log : x.key[4] = e =>
           /\ x.key[3] <= x.diffMinutes
           /\ x.diffMinutes <= x.key[3] + 15

-----------------------------------------------------------------------------
(* SpecReschedule: between sweeps the schedule editor saves the task with  *)
(* the same or a later time; the transport always delivers.                *)

NextReschedule ==
  \/ (sweepNo < MaxSweeps /\ SweepStart("s1", DefaultOptions))
  \/ SweepSteps("s1")
  \/ SweepSend("s1", "delivered")
  \/ \E time \in {RefTime, HHMM(14, 5), HHMM(15, 0)} :
       /\ Idle
       /\ upsertScheduleEvent([eventId |-> "t1", date |-> RefDay, time |-> time,
                               child |-> <<"alin">>, type |-> "lesson",
                               title |-> "english - karl", completed |-> FALSE,
                               sendNotification |-> TRUE])

SpecReschedule == InitFlag /\ [][NextReschedule]_vars

\* C7: when a reminder was delivered to a subscription for an earlier start of
\* the task and the task now has another start that is due for the subscription
\* at a later sweep, that sweep sends the subscription a reminder for the new start.
C7_RescheduledReminded ==
  \A s \in Sweepers : sweep[s].pc = "return" =>
    \A t \in TaskIds, e \in DOMAIN sweep[s].subscriptions :
      LET l == sweep[s]
          lead == normalizeReminderLeadMinutes(l.subscriptions[e].reminder_lead_minutes)
          start == parseTaskStartUtc(tasks[t].day, tasks[t].time)
      IN (/\ tasks[t] # NoTask
          /\ ~tasks[t].completed /\ tasks[t].send_notification
          /\ shouldSubscriptionReceiveTask(l.subscriptions[e], getTaskAudienceChildren(tasks[t]))
          /\ \E x \in log : /\ x.n < l.n /\ x.outcome = "delivered"
                            /\ x.key[1] = t /\ x.key[4] = e /\ x.key[2] # start
          /\ ~\E y \in log : y.n < l.n /\ y.key = dispatchKey(t, start, lead, e)
          /\ WithinMinutes(tasks[t], l.nowUtc, l.timeZone, lead, lead + l.windowForwardMinutes))
         => dispatchKey(t, start, lead, e) \in AttemptedBy(l.n)

-----------------------------------------------------------------------------
(* SpecTrigger: one of the two triggers runs a sweep every minute, from    *)
(* before the window of the only subscription opens until the task starts. *)
(* The remind trigger sweeps on the UTC clock, the notifications/check     *)
(* trigger on the clock of Asia/Jerusalem, two hours east of UTC; the task *)
(* starts at its date and time on the clock of the trigger.                *)

JerusalemOffset == 120

\* the options of runCheck: { timeZone: "Asia/Jerusalem", toleranceMinutes: 2 };
\* sendUpcomingTaskReminders reads windowForwardMinutes, strictChildUserOnly and
\* timeZone of its options and nothing else
CheckOptions == [windowForwardMinutes |-> Null, strictChildUserOnly |-> FALSE,
                 timeZone |-> JerusalemOffset, toleranceMinutes |-> 2]

TriggerOptions == {DefaultOptions, CheckOptions}

\* the zone of the trigger that has been sweeping
TriggerZone == CHOOSE z \in {r.timeZone : r \in returned} : TRUE

\* the start of a task in minutes since day 0, 00:00 UTC, on the clock of a trigger
StartOnClock(task, zone) ==
  IF zone = Null THEN parseTaskStartUtc(task.day, task.time)
  ELSE parseTaskStartUtc(task.day, task.time) - zone

StartTimes == {HHMM(14, 0), HHMM(0, 5), HHMM(0, 20), HHMM(23, 50)}

InitTrigger ==
  /\ \E time \in StartTimes, lead \in reminderLeadOptions, h \in {0, 1} :
       /\ tasks = [t \in TaskIds |->
                     IF t = "t1" THEN TaskRow(RefDay, time, <<"alin">>, FALSE, TRUE, FALSE)
                     ELSE NoTask]
       /\ subs = [e \in Endpoints |->
                    IF e = "e1" THEN SubRow("he_alin", FALSE, <<>>, lead) ELSE NoSub]
       /\ now = (parseTaskStartUtc(RefDay, time) - JerusalemOffset
                   - (lead + windowForwardMinutesOf(Null) + 1)) * HalfPerMinute - h
  /\ dispatches = {}
  /\ sweep = IdleSweeps
  /\ sweepNo = 0
  /\ log = {}
  /\ returned = {}
  /\ flaggedAt = [t \in TaskIds |-> 0]
  /\ env = ConfiguredEnv
  /\ vapidInitialized = FALSE
  /\ registered = NoRegistrations
  /\ ack = IdleAcks

NextTrigger ==
  \/ \E o \in TriggerOptions :
       /\ ~SweptNow
       /\ \A r \in returned : r.timeZone = o.timeZone
       /\ SweepStart("s1", o)
  \/ SweepSteps("s1")
  \/ SweepSend("s1", "delivered")
  \/ (/\ Idle /\ SweptNow
      /\ now < StartOnClock(tasks["t1"], TriggerZone) * HalfPerMinute
      /\ Advance(HalfPerMinute))

SpecTrigger == InitTrigger /\ [][NextTrigger]_vars

\* C11: when the start has come, some sweep has delivered the reminder to the
\* subscription, at an instant at which L <= diffMinutes <= L + windowForwardMinutes
\* on the clock of the trigger, the UTC clock and the clock of the zone alike.
C11_DeliveredInWindow ==
  (/\ Idle /\ SweptNow
   /\ now >= StartOnClock(tasks["t1"], TriggerZone) * HalfPerMinute)
  => \E x \in log, r \in returned :
       LET lead == normalizeReminderLeadMinutes(subs["e1"].reminder_lead_minutes)
       IN /\ x.outcome = "delivered" /\ x.key[1] = "t1" /\ x.key[4] = "e1"
          /\ r.n = x.n
          /\ WithinMinutes(tasks["t1"], r.nowUtc, r.timeZone,
                           lead, lead + r.windowForwardMinutes)

-----------------------------------------------------------------------------
(* SpecAudience: one sweep over one task that is ten minutes ahead on the  *)
(* clock of one of the triggers, for every recipient encoding and every    *)
(* kind of subscription row; the rows are drawn as the columns admit them. *)

MaxAudienceSweeps == 1

Encodings == {<<>>, <<"ravid">>, <<"amit", "alin">>, <<"AMIT">>, <<" alin ", "">>,
              <<"bob">>, <<"bob", "alin">>, <<"he_ravid!">>, <<"constructor">>}

AudienceRows == [keys : {"k0"},
                 user_name : {NullText, " ", "he_ravid", " he_amit ", "he_alin",
                              "he_sivan", "grandma"},
                 receive_all : BOOLEAN,
                 watch_children : {NullList, <<>>, <<"he_ravid">>, <<"he_amit", "he_alin">>,
                                   <<"grandma">>},
                 reminder_lead_minutes : {10}]

StrictOptions == [windowForwardMinutes |-> Null, strictChildUserOnly |-> TRUE,
                  timeZone |-> Null]

InitAudience ==
  /\ now \in {(RefStart - 10) * HalfPerMinute,
              (RefStart - JerusalemOffset - 10) * HalfPerMinute}
  /\ \E child \in Encodings :
       tasks = [t \in TaskIds |->
                  IF t = "t1" THEN TaskRow(RefDay, RefTime, child, FALSE, TRUE, FALSE)
                  ELSE NoTask]
  /\ \E row \in AudienceRows, other \in {NoSub, SubRow("he_ravid", FALSE, <<>>, 10)} :
       subs = [e \in Endpoints |-> IF e = "e1" THEN row ELSE other]
  /\ dispatches = {}
  /\ sweep = IdleSweeps
  /\ sweepNo = 0
  /\ log = {}
  /\ returned = {}
  /\ flaggedAt = [t \in TaskIds |-> 0]
  /\ env = ConfiguredEnv
  /\ vapidInitialized = FALSE
  /\ registered = NoRegistrations
  /\ ack = IdleAcks

NextAudience ==
  \/ \E o \in TriggerOptions \cup {StrictOptions} :
       sweepNo < MaxAudienceSweeps /\ SweepStart("s1", o)
  \/ SweepSteps("s1")
  \/ \E outcome \in TransportOutcomes : SweepSend("s1", outcome)
  \/ SweepRemove("s1")

SpecAudience == InitAudience /\ [][NextAudience]_vars

\* the key under which a child is written in a recipient encoding
KeyOfChild(c) ==
  CASE c = "he_ravid" -> "ravid"
    [] c = "he_amit" -> "amit"
    [] c = "he_alin" -> "alin"

\* the known children that a recipient encoding names, by key or by name
NamedChildren(rawChild) ==
  {c \in childUserNames :
     \E i \in 1..Len(rawChild) :
       \/ trim(toLowerCase(rawChild[i])) \in {KeyOfChild(c), c}
       \/ c \in hebrewNamesIn(rawChild[i])}

\* the owner identity recorded in a subscription row
OwnerOf(row) == trim(orEmpty(row.user_name))

\* the known children in the watch list of a subscription row
WatchedChildren(row) == {trim(v) : v \in parts(row.watch_children)} \cap childUserNames

\* this step of sweeper s evaluates a task that is in the coarse window
Evaluates(s) ==
  /\ sweep[s].pc = "nextTask"
  /\ sweep'[s].todo # sweep[s].todo
  /\ \A t \in sweep[s].todo \ sweep'[s].todo :
       /\ parseTaskStartUtc(sweep[s].rows[t].day, sweep[s].rows[t].time) # Null
       /\ WithinMinutes(sweep[s].rows[t], sweep[s].nowUtc, sweep[s].timeZone, 0, CoarseMax)

\* the recipient encoding of the task that this step of sweeper s evaluates
EvaluatedChild(s) ==
  LET t == CHOOSE t \in sweep[s].todo \ sweep'[s].todo : TRUE IN sweep[s].rows[t].child

\* this step of sweeper s puts subscription e among the targets of the task
Targets(s, e) == sweep'[s].pc = "nextSub" /\ e \in sweep'[s].targeted

\* C12: a child-owned subscription is among the targets of a task iff its owner is
\* one of the children the encoding names; for "amit_alin" these are amit and alin
\* and not ravid; a parent subscription with receive_all is among the targets of a
\* task that names a child, whatever its watch list (in a sweep not restricted to
\* child owners).
C12_ChildAudience ==
  [][\A s \in Sweepers : Evaluates(s) =>
       \A e \in DOMAIN sweep[s].subscriptions :
         LET row == sweep[s].subscriptions[e] IN
           /\ OwnerOf(row) \in childUserNames
                => (Targets(s, e) <=> OwnerOf(row) \in NamedChildren(EvaluatedChild(s)))
           /\ (EvaluatedChild(s) = <<"amit", "alin">> /\ OwnerOf(row) \in childUserNames)
                => (Targets(s, e) <=> OwnerOf(row) \in {"he_amit", "he_alin"})
           /\ (/\ OwnerOf(row) \in parentUserNames /\ row.receive_all
               /\ NamedChildren(EvaluatedChild(s)) # {}
               /\ ~sweep[s].strictChildUserOnly)
                => Targets(s, e)
    ]_vars

\* the task "amit_alin" is being sent to the subscription of amit and not to the
\* one of ravid
C12_Witness ==
  /\ sweep["s1"].pc = "send" /\ sweep["s1"].task = "t1" /\ sweep["s1"].endpoint = "e1"
  /\ sweep["s1"].rows["t1"].child = <<"amit", "alin">>
  /\ subs["e1"] # NoSub /\ OwnerOf(subs["e1"]) = "he_amit"
  /\ subs["e2"] # NoSub /\ OwnerOf(subs["e2"]) = "he_ravid"
  /\ sweep["s1"].targeted = {"e1"}

\* C13 as stated: a subscription without owner identity is among the targets of
\* every reminder-eligible task in the window, whatever its recipient encoding.
C13_AnonymousEveryTask ==
  [][\A s \in Sweepers : (Evaluates(s) /\ ~sweep[s].strictChildUserOnly) =>
       \A e \in DOMAIN sweep[s].subscriptions :
         OwnerOf(sweep[s].subscriptions[e]) = "" => Targets(s, e)
    ]_vars

\* C13 amended: a subscription without owner identity (user_name null or blank) is
\* among the targets of every reminder-eligible task in the window whose recipient
\* encoding names at least one known child, in a sweep not restricted to child owners.
C13_AnonymousNamedTask ==
  [][\A s \in Sweepers :
       (Evaluates(s) /\ ~sweep[s].strictChildUserOnly
          /\ NamedChildren(EvaluatedChild(s)) # {}) =>
       \A e \in DOMAIN sweep[s].subscriptions :
         OwnerOf(sweep[s].subscriptions[e]) = "" => Targets(s, e)
    ]_vars

\* a task for ravid was delivered to a subscription with a blank user_name
C13_Witness ==
  /\ subs["e1"] # NoSub /\ subs["e1"].user_name = " "
  /\ tasks["t1"].child = <<"ravid">>
  /\ \E x \in log : x.key[4] = "e1" /\ x.outcome = "delivered"
  /\ sweep["s1"].pc = "sent" /\ "e1" \in sweep["s1"].targeted

\* C14: a task in the window whose recipient encoding names no known child gets no
\* target, is counted under no_audience_subscriptions and is never sent.
C14_NoAudienceSkipped ==
  [][/\ \A s \in Sweepers :
          (Evaluates(s) /\ NamedChildren(EvaluatedChild(s)) = {}) =>
            /\ sweep'[s].pc = "nextTask"
            /\ sweep'[s].skippedByReason["no_audience_subscriptions"]
                 = sweep[s].skippedByReason["no_audience_subscriptions"] + 1
     /\ \A x \in log' \ log : NamedChildren(tasks[x.key[1]].child) # {}
    ]_vars

\* C15: a parent subscription with receive_all = false is among the targets of a
\* task that names a child iff one of the children it watches is named by the task
\* or it watches no child (in a sweep not restricted to child owners).
C15_ParentWatchList ==
  [][\A s \in Sweepers :
       (Evaluates(s) /\ ~sweep[s].strictChildUserOnly
          /\ NamedChildren(EvaluatedChild(s)) # {}) =>
       \A e \in DOMAIN sweep[s].subscriptions :
         LET row == sweep[s].subscriptions[e] IN
           (OwnerOf(row) \in parentUserNames /\ ~row.receive_all)
             => (Targets(s, e) <=>
                   \/ WatchedChildren(row) \cap NamedChildren(EvaluatedChild(s)) # {}
                   \/ WatchedChildren(row) = {})
    ]_vars

\* a parent with an empty watch list is being sent the task "amit_alin"
C15_Witness ==
  /\ sweep["s1"].pc = "send" /\ sweep["s1"].endpoint = "e1"
  /\ sweep["s1"].rows["t1"].child = <<"amit", "alin">>
  /\ subs["e1"] # NoSub /\ OwnerOf(subs["e1"]) = "he_sivan"
  /\ ~subs["e1"].receive_all /\ subs["e1"].watch_children = <<>>

\* C16: a subscription whose recorded owner is neither empty nor a known child nor
\* a known parent is never among the targets of a task and is never sent to.
C16_UnknownOwnerNever ==
  [][\A s \in Sweepers :
       /\ (sweep[s].pc = "nextTask" /\ sweep'[s].todo # sweep[s].todo) =>
            \A e \in DOMAIN sweep[s].subscriptions :
              OwnerOf(sweep[s].subscriptions[e]) \notin {""} \cup childUserNames \cup parentUserNames
                => ~Targets(s, e)
       /\ (sweep[s].pc = "send" /\ sweep'[s].pc # "send") =>
            OwnerOf(sweep[s].subscriptions[sweep[s].endpoint])
              \in {""} \cup childUserNames \cup parentUserNames
    ]_vars

\* a sweep sent the task for ravid to the subscription of ravid and returned, and the
\* subscription of an unknown owner, flagged receive_all, was not among the targets
C16_Witness ==
  /\ subs["e1"] # NoSub /\ subs["e1"].user_name = "grandma" /\ subs["e1"].receive_all
  /\ tasks["t1"].child = <<"ravid">>
  /\ returned # {}
  /\ \E x \in log : x.key[4] = "e2"
  /\ \A x \in log : x.key[4] # "e1"

-----------------------------------------------------------------------------
(* SpecHeal: sweeps one after another over one or two due tasks, with a    *)
(* transport that may report an endpoint gone, while installs unsubscribe  *)
(* and the install of endpoint e2 registers again and again.               *)

MaxHealSweeps == 2

Registrations == [keys : {"k1"}, userName : {"he_alin", "grandma"}, receiveAll : {FALSE},
                  watchChildren : {<<>>}, reminderLeadMinutes : {10, 7}]

InitHeal ==
  /\ now = (RefStart - 10) * HalfPerMinute
  /\ \E second \in {NoTask, TaskRow(RefDay, RefTime, <<"amit", "alin">>, FALSE, TRUE, FALSE)} :
       tasks = [t \in TaskIds |->
                  IF t = "t1" THEN TaskRow(RefDay, RefTime, <<"alin">>, FALSE, TRUE, FALSE)
                  ELSE second]
  /\ \E other \in {NoSub, SubRow(NullText, FALSE, <<>>, 10)} :
       subs = [e \in Endpoints |->
                 IF e = "e1" THEN SubRow("he_alin", FALSE, <<>>, 10) ELSE other]
  /\ dispatches = {}
  /\ sweep = IdleSweeps
  /\ sweepNo = 0
  /\ log = {}
  /\ returned = {}
  /\ flaggedAt = [t \in TaskIds |-> 0]
  /\ env = ConfiguredEnv
  /\ vapidInitialized = FALSE
  /\ registered = NoRegistrations
  /\ ack = IdleAcks

NextHeal ==
  \/ (sweepNo < MaxHealSweeps /\ SweepStart("s1", DefaultOptions))
  \/ SweepSteps("s1")
  \/ \E outcome \in TransportOutcomes : SweepSend("s1", outcome)
  \/ SweepRemove("s1")
  \/ \E meta \in Registrations : savePushSubscription("e2", meta)
  \/ \E e \in Endpoints : Unsubscribe(e)

SpecHeal == InitHeal /\ [][NextHeal]_vars

\* C17: the step after the transport reported 404 or 410 deletes the subscription
\* of that endpoint; a sweep reads the subscriptions at its start and sends to the
\* endpoints it read only, so a sweep that starts while the endpoint is absent does
\* not send to it; an absent endpoint comes back by no step of a sweep; and the
\* endpoint e1, which is not registered again here, gets no send from any sweep
\* after the one in which it was reported gone.
C17_GoneIsRemoved ==
  [][/\ \A s \in Sweepers :
          /\ (sweep[s].pc = "send" /\ \E x \in log' \ log : x.outcome = "gone")
               => sweep'[s].pc = "remove"
          /\ (sweep[s].pc = "remove" /\ sweep'[s].pc # "remove")
               => subs'[sweep[s].endpoint] = NoSub
          /\ (sweep[s].pc = "idle" /\ sweep'[s].pc # "idle")
               => DOMAIN sweep'[s].subscriptions = {e \in Endpoints : subs[e] # NoSub}
          /\ (sweep[s].pc # "idle" /\ sweep'[s].pc # "idle")
               => sweep'[s].subscriptions = sweep[s].subscriptions
          /\ (sweep[s].pc = "send" /\ sweep'[s].pc # "send")
               => sweep[s].endpoint \in DOMAIN sweep[s].subscriptions
     /\ \A e \in Endpoints :
          (subs[e] = NoSub /\ subs'[e] # NoSub) => (sweep' = sweep /\ log' = log)
     /\ \A x \in log', y \in log' :
          (x.key[4] = "e1" /\ x.outcome = "gone" /\ y.key[4] = "e1") => y.n <= x.n
    ]_vars

\* the transport reported e1 gone in sweep 1; the subscription is absent, sweep 2
\* has run over the task, which is still due and not notified, and sent nothing to e1
C17_Witness ==
  /\ Idle
  /\ Cardinality(returned) = 2
  /\ subs["e1"] = NoSub
  /\ \E x \in log : x.n = 1 /\ x.key[4] = "e1" /\ x.outcome = "gone"
  /\ \A x \in log : x.key[4] = "e1" => x.n = 1
  /\ ~tasks["t1"].notified
  /\ \E r \in returned : r.n = 2 /\ r.scanned >= 1

-----------------------------------------------------------------------------
(* SpecVapid: sweeps and acknowledgements in a process whose environment   *)
(* has both, one or none of the two VAPID keys.                            *)

MaxVapidSweeps == 2

InitVapid ==
  /\ now = (RefStart - 10) * HalfPerMinute
  /\ tasks = [t \in TaskIds |->
                IF t = "t1" THEN TaskRow(RefDay, RefTime, <<"alin">>, FALSE, TRUE, FALSE)
                ELSE NoTask]
  /\ \E other \in {NoSub, SubRow("he_roi", TRUE, <<>>, 10)} :
       subs = [e \in Endpoints |->
                 IF e = "e1" THEN SubRow("he_alin", FALSE, <<>>, 10) ELSE other]
  /\ dispatches = {}
  /\ sweep = IdleSweeps
  /\ sweepNo = 0
  /\ log = {}
  /\ returned = {}
  /\ flaggedAt = [t \in TaskIds |-> 0]
  /\ env \in Envs
  /\ vapidInitialized = FALSE
  /\ registered = NoRegistrations
  /\ ack = IdleAcks

NextVapid ==
  \/ (sweepNo < MaxVapidSweeps /\ SweepStart("s1", DefaultOptions))
  \/ SweepSteps("s1")
  \/ \E outcome \in TransportOutcomes : SweepSend("s1", outcome)
  \/ SweepRemove("s1")
  \/ \E t \in TaskIds, gone \in SUBSET Endpoints : Confirm(t, gone)

SpecVapid == InitVapid /\ [][NextVapid]_vars

\* C18: while a VAPID key is missing, every call of sendToSubscription returns
\* missing-vapid and the transport is not called, no dispatch record is created, no
\* notified flag is set and no subscription is deleted.
C18_MissingVapidNoEffect ==
  [][(~env.vapidPublicKey \/ ~env.vapidPrivateKey) =>
       /\ log' = log
       /\ dispatches' = dispatches
       /\ subs' = subs
       /\ \A t \in TaskIds : tasks[t] # NoTask => tasks'[t].notified = tasks[t].notified
       /\ \A s \in Sweepers :
            (sweep[s].pc = "send" /\ sweep'[s].pc # "send")
              => /\ sweep'[s].sendResult.reason = "missing-vapid"
                 /\ ~sweep'[s].sendResult.ok
                 /\ sweep'[s].pc = "sent"
    ]_vars

\* without the private key a sweep tried both subscriptions of the due task and
\* returned: no transport call, no record, no flag, both subscriptions in place
C18_Witness ==
  /\ env.vapidPublicKey /\ ~env.vapidPrivateKey
  /\ \E r \in returned : r.scanned = 1 /\ r.sent = 0 /\ r.skippedByReason["delivery_failed"] = 1
  /\ log = {} /\ dispatches = {}
  /\ ~tasks["t1"].notified
  /\ subs["e1"] # NoSub /\ subs["e2"] # NoSub

-----------------------------------------------------------------------------
(* SpecTasks: one sweep of a trigger over two tasks, the first of which    *)
(* may have a malformed date, time or recipient encoding, with a transport *)
(* that may fail in every way.                                             *)

MaxTaskSweeps == 1

MalformedRows ==
  {TaskRow(NoDay, RefTime, <<"alin">>, FALSE, TRUE, FALSE),
   TaskRow(Ymd(Null), RefTime, <<"alin">>, FALSE, TRUE, FALSE),
   TaskRow(RefDay, NoTime, <<"alin">>, FALSE, TRUE, FALSE),
   TaskRow(RefDay, HHMM(25, 0), <<"alin">>, FALSE, TRUE, FALSE),
   TaskRow(Dmy(1), HHMM(14, 60), <<"alin">>, FALSE, TRUE, FALSE),
   TaskRow(Iso(1, 840), NoTime, <<"alin">>, FALSE, TRUE, FALSE),
   TaskRow(NoDay, NoTime, <<"alin">>, FALSE, TRUE, FALSE),
   TaskRow(RefDay, RefTime, <<>>, FALSE, TRUE, FALSE),
   TaskRow(RefDay, RefTime, <<"bob">>, FALSE, TRUE, FALSE)}

WellFormedRows ==
  {TaskRow(RefDay, RefTime, <<"alin">>, FALSE, TRUE, FALSE),
   TaskRow(Dmy(1), RefTime, <<"amit", "alin">>, FALSE, TRUE, FALSE),
   TaskRow(Iso(1, 840), RefTime, <<"alin">>, FALSE, TRUE, FALSE)}

InitTasks ==
  /\ now \in {(RefStart - 10) * HalfPerMinute,
              (RefStart - JerusalemOffset - 10) * HalfPerMinute}
  /\ \E first \in MalformedRows \cup WellFormedRows, second \in WellFormedRows :
       tasks = [t \in TaskIds |-> IF t = "t1" THEN first ELSE second]
  /\ \E other \in {NoSub, SubRow(NullText, FALSE, <<>>, 10)} :
       subs = [e \in Endpoints |->
                 IF e = "e1" THEN SubRow("he_alin", FALSE, <<>>, 10) ELSE other]
  /\ dispatches = {}
  /\ sweep = IdleSweeps
  /\ sweepNo = 0
  /\ log = {}
  /\ returned = {}
  /\ flaggedAt = [t \in TaskIds |-> 0]
  /\ env = ConfiguredEnv
  /\ vapidInitialized = FALSE
  /\ registered = NoRegistrations
  /\ ack = IdleAcks

NextTasks ==
  \/ \E o \in TriggerOptions : sweepNo < MaxTaskSweeps /\ SweepStart("s1", o)
  \/ SweepSteps("s1")
  \/ \E outcome \in TransportOutcomes : SweepSend("s1", outcome)
  \/ SweepRemove("s1")

SpecTasks == InitTasks /\ [][NextTasks]_vars

\* the number of tasks a summary counts as skipped; already_dispatched is counted
\* per subscription and is left out
SkippedTasks(r) ==
  r.skippedByReason["completed"] + r.skippedByReason["already_notified"]
    + r.skippedByReason["notifications_disabled"] + r.skippedByReason["type_not_eligible"]
    + r.skippedByReason["invalid_date"] + r.skippedByReason["date_mismatch"]
    + r.skippedByReason["invalid_time"] + r.skippedByReason["outside_window"]
    + r.skippedByReason["offset_not_due"] + r.skippedByReason["no_audience_subscriptions"]
    + r.skippedByReason["delivery_failed"]

DateParsable(day) == day.fmt \in {"ymd", "dmy", "iso"} /\ day.n # Null

\* is the text HH:MM with hours 00-23 and minutes 00-59
TimeParsable(time) ==
  time # NoTime /\ time.h >= 0 /\ time.h <= 23 /\ time.m >= 0 /\ time.m <= 59

\* C20: a task with an unparsable date is skipped and counted under invalid_date, a
\* task with a parsable date and an unparsable time is skipped and counted under
\* invalid_time, and no send is made for either.
C20_InvalidDateOrTime ==
  [][/\ \A s \in Sweepers :
          (sweep[s].pc = "nextTask" /\ sweep'[s].todo # sweep[s].todo) =>
            LET t == CHOOSE t \in sweep[s].todo \ sweep'[s].todo : TRUE
                row == sweep[s].rows[t]
            IN /\ ~DateParsable(row.day) =>
                    /\ sweep'[s].pc = "nextTask"
                    /\ sweep'[s].skippedByReason["invalid_date"]
                         = sweep[s].skippedByReason["invalid_date"] + 1
               /\ (DateParsable(row.day) /\ ~TimeParsable(row.time)) =>
                    /\ sweep'[s].pc = "nextTask"
                    /\ sweep'[s].skippedByReason["invalid_time"]
                         = sweep[s].skippedByReason["invalid_time"] + 1
     /\ \A x \in log' \ log :
          /\ DateParsable(tasks[x.key[1]].day)
          /\ TimeParsable(tasks[x.key[1]].time)
    ]_vars

-----------------------------------------------------------------------------
(* SpecTruncate: the first sweep may be cut off by the platform at any of   *)
(* its awaits; the second sweep runs to its end.  The clock stands at 13:50 *)
(* and the transport always delivers.                                       *)

MaxTruncateSweeps == 2

InitTruncate ==
  /\ now = (RefStart - 10) * HalfPerMinute
  /\ \E second \in {NoTask, TaskRow(RefDay, RefTime, <<"amit", "alin">>, FALSE, TRUE, FALSE)} :
       tasks = [t \in TaskIds |->
                  IF t = "t1" THEN TaskRow(RefDay, RefTime, <<"alin">>, FALSE, TRUE, FALSE)
                  ELSE second]
  /\ \E other \in {NoSub, SubRow(NullText, FALSE, <<>>, 10), SubRow("he_roi", TRUE, <<>>, 30),
                    SubRow("he_amit", FALSE, <<>>, 10)} :
       subs = [e \in Endpoints |->
                 IF e = "e1" THEN SubRow("he_alin", FALSE, <<>>, 10) ELSE other]
  /\ dispatches = {}
  /\ sweep = IdleSweeps
  /\ sweepNo = 0
  /\ log = {}
  /\ returned = {}
  /\ flaggedAt = [t \in TaskIds |-> 0]
  /\ env = ConfiguredEnv
  /\ vapidInitialized = FALSE
  /\ registered = NoRegistrations
  /\ ack = IdleAcks

NextTruncate ==
  \/ (sweepNo < MaxTruncateSweeps /\ SweepStart("s1", DefaultOptions))
  \/ SweepSteps("s1")
  \/ SweepSend("s1", "delivered")
  \/ (sweep["s1"].n = 1 /\ SweepCutOff("s1"))

SpecTruncate == InitTruncate /\ [][NextTruncate]_vars

\* sweep n was invoked, is not running and returned no summary
CutOff(n) ==
  /\ n >= 1 /\ n <= sweepNo
  /\ \A s \in Sweepers : sweep[s].n # n
  /\ ~\E r \in returned : r.n = n

\* the keys that are due at the sweep with locals l: eligible task, subscription in
\* its audience, start inside the window of the subscription
DueKeys(l) ==
  {dispatchKey(t, parseTaskStartUtc(tasks[t].day, tasks[t].time),
               normalizeReminderLeadMinutes(l.subscriptions[e].reminder_lead_minutes), e) :
     <<t, e>> \in {p \in TaskIds \X DOMAIN l.subscriptions :
        /\ tasks[p[1]] # NoTask
        /\ ~tasks[p[1]].completed /\ tasks[p[1]].send_notification
        /\ parseTaskStartUtc(tasks[p[1]].day, tasks[p[1]].time) # Null
        /\ shouldSubscriptionReceiveTask(l.subscriptions[p[2]],
                                         getTaskAudienceChildren(tasks[p[1]]))
        /\ WithinMinutes(tasks[p[1]], l.nowUtc, l.timeZone,
             normalizeReminderLeadMinutes(l.subscriptions[p[2]].reminder_lead_minutes),
             normalizeReminderLeadMinutes(l.subscriptions[p[2]].reminder_lead_minutes)
               + l.windowForwardMinutes)}}

\* C21: when sweep 1 was cut off between two of its steps and sweep 2 has run to
\* its end, sweep 2 called the transport for no key that sweep 1 delivered, and
\* for every due key that sweep 1 had not delivered.
C21_TruncatedSweepResumed ==
  \A s \in Sweepers :
    (sweep[s].pc = "return" /\ sweep[s].n = 2 /\ CutOff(1)) =>
      /\ DeliveredBy(1) \cap AttemptedBy(2) = {}
      /\ DueKeys(sweep[s]) \ DeliveredBy(1) \subseteq AttemptedBy(2)

-----------------------------------------------------------------------------
(* Claims on what a sweep writes to the task store, under overlapping       *)
(* sweeps and acknowledgements (SpecOverlap)                                *)

\* the steps of the sweeps are the steps that change the locals of a sweeper
SweepStep == sweep' # sweep

\* a successful delivery for task t by the sweep that sweeper s runs
DeliveredInSweep(s, t) ==
  \E x \in log : x.n = sweep[s].n /\ x.key[1] = t /\ x.outcome = "delivered"

\* C22 as stated: a step of a sweep changes no field of a task but notified,
\* changes notified from FALSE to TRUE only, only for a task with a successful
\* delivery in that sweep, and neither creates nor deletes a task.
C22_OnlyNotifiedChanges ==
  [][SweepStep =>
       \A t \in TaskIds :
         /\ tasks[t] = NoTask <=> tasks'[t] = NoTask
         /\ tasks[t] # NoTask =>
              /\ tasks'[t] = [tasks[t] EXCEPT !.notified = tasks'[t].notified]
              /\ tasks'[t].notified # tasks[t].notified =>
                   /\ ~tasks[t].notified /\ tasks'[t].notified
                   /\ \E s \in Sweepers : sweep[s].pc = "endTask" /\ sweep'[s] # sweep[s]
                                            /\ sweep[s].task = t /\ DeliveredInSweep(s, t)
    ]_vars

\* C22 amended: a step of a sweep changes no field of a task but notified and
\* updated_at, changes notified from FALSE to TRUE only, only for a task with a
\* successful delivery in that sweep, and neither creates nor deletes a task.
C22_OnlyNotifiedAndStamp ==
  [][SweepStep =>
       \A t \in TaskIds :
         /\ tasks[t] = NoTask <=> tasks'[t] = NoTask
         /\ tasks[t] # NoTask =>
              /\ tasks'[t] = [tasks[t] EXCEPT !.notified = tasks'[t].notified,
                                              !.updated_at = tasks'[t].updated_at]
              /\ tasks'[t].notified # tasks[t].notified =>
                   /\ ~tasks[t].notified /\ tasks'[t].notified
                   /\ \E s \in Sweepers : sweep[s].pc = "endTask" /\ sweep'[s] # sweep[s]
                                            /\ sweep[s].task = t /\ DeliveredInSweep(s, t)
    ]_vars

\* a sweep delivered for t1 and has just set its notified flag, with the time of
\* the update; the other fields of the task are those of the start
C22_Witness ==
  /\ \E s \in Sweepers : sweep[s].pc = "nextTask" /\ sweep[s].task = "t1"
                           /\ DeliveredInSweep(s, "t1")
  /\ tasks["t1"] = [TaskRow(RefDay, RefTime, <<"alin">>, FALSE, TRUE, TRUE)
                      EXCEPT !.updated_at = now]
  /\ tasks["t2"] = NoTask

-----------------------------------------------------------------------------
(* SpecStore: two triggers may run their sweeps at the same time while the  *)
(* clock moves on, installs register and unsubscribe and the task is        *)
(* acknowledged.                                                            *)

MaxStoreSweeps == 2
MaxStoreTicks == 1

StoreStart == (RefStart - 10) * HalfPerMinute

InitStore ==
  /\ now = StoreStart
  /\ tasks = [t \in TaskIds |->
                IF t = "t1" THEN TaskRow(RefDay, RefTime, <<"alin">>, FALSE, TRUE, FALSE)
                ELSE NoTask]
  /\ subs = [e \in Endpoints |->
               IF e = "e1" THEN SubRow("he_alin", FALSE, <<>>, 10) ELSE NoSub]
  /\ dispatches = {}
  /\ sweep = IdleSweeps
  /\ sweepNo = 0
  /\ log = {}
  /\ returned = {}
  /\ flaggedAt = [t \in TaskIds |-> 0]
  /\ env = ConfiguredEnv
  /\ vapidInitialized = FALSE
  /\ registered = NoRegistrations
  /\ ack = IdleAcks

\* the install of e2 registers for the child with the longest lead time
StoreRegistration == [keys |-> "k1", userName |-> "he_alin", receiveAll |-> FALSE, watchChildren |-> <<>>,
                      reminderLeadMinutes |-> 30]

NextStore ==
  \/ \E s \in Sweepers : sweepNo < MaxStoreSweeps /\ SweepStart(s, DefaultOptions)
  \/ \E s \in Sweepers : SweepSteps(s)
  \/ \E s \in Sweepers, outcome \in {"delivered", "error"} : SweepSend(s, outcome)
  \/ (now < StoreStart + MaxStoreTicks /\ Tick)
  \/ savePushSubscription("e2", StoreRegistration)
  \/ Unsubscribe("e2")
  \/ Confirm("t1", {})

SpecStore == InitStore /\ [][NextStore]_vars

\* C23: the dispatch store never holds two records with the same key; a record is
\* inserted only by the step of a sweep that follows a successful delivery for
\* its key; and no step of a sweep, a registration, an unsubscription or an
\* acknowledgement changes or removes a record that is there.
C23_DispatchStore ==
  /\ [](\A r1 \in dispatches, r2 \in dispatches :
          r1.dispatch_key = r2.dispatch_key => r1 = r2)
  /\ [](\A r \in dispatches : Delivered(r.dispatch_key) # {})
  /\ [][/\ dispatches \subseteq dispatches'
        /\ \A r \in dispatches' \ dispatches :
             /\ Delivered(r.dispatch_key) # {}
             /\ \E s \in Sweepers : /\ sweep[s].pc = "sent" /\ sweep'[s].pc = "nextSub"
                                      /\ sweep[s].sendResult.ok
                                      /\ currentKey(sweep[s]) = r.dispatch_key
       ]_vars

\* both sweeps delivered the same key and both went through their insert; the store
\* holds the one record of the first insert, made before the clock moved on, while
\* e2 registered and the task was acknowledged
C23_Witness ==
  /\ \A s \in Sweepers : sweep[s].pc = "nextSub" /\ sweep[s].deliveredForTask = 1
  /\ Cardinality(Delivered(dispatchKey("t1", RefStart, 10, "e1"))) = 2
  /\ dispatches = {DispatchRow(dispatchKey("t1", RefStart, 10, "e1"), StoreStart)}
  /\ now = StoreStart + 1
  /\ subs["e2"] # NoSub
  /\ tasks["t1"].completed

-----------------------------------------------------------------------------
(* SpecRegister: installs register, register again and unsubscribe, around  *)
(* and during a sweep over one due task whose transport may report an       *)
(* endpoint gone.  Endpoint e1 starts with a row that was not written by    *)
(* savePushSubscription (lead time 7 or 12); endpoint e2 registers with every     *)
(* kind of owner, flag, watch list, lead time and keys.                     *)

MaxRegisterSweeps == 1

\* bodies of POST requests of the subscribe route; reminderLeadMinutes Null stands
\* for a body without the field, keys " " for blank keys
OwnerBodies == [keys : {"k1"},
                userName : {"he_alin", " he_amit ", "he_sivan", "he_roi", "grandma", ""},
                receiveAll : BOOLEAN,
                watchChildren : {<<>>, <<"he_alin", " he_amit ", "bob", "he_alin">>},
                reminderLeadMinutes : {10}]

LeadBodies == [keys : {"k1", "k2", " "},
               userName : {"he_alin"},
               receiveAll : {FALSE},
               watchChildren : {<<>>},
               reminderLeadMinutes : {Null, 5, 6, 15, 29, 30, 31}]

FirstBodies == {[keys |-> "k1", userName |-> "he_alin", receiveAll |-> FALSE,
                 watchChildren |-> <<>>, reminderLeadMinutes |-> 10],
                [keys |-> "k2", userName |-> "he_sivan", receiveAll |-> TRUE,
                 watchChildren |-> <<"he_amit">>, reminderLeadMinutes |-> 12]}

InitRegister ==
  /\ now = (RefStart - 10) * HalfPerMinute
  /\ tasks = [t \in TaskIds |->
                IF t = "t1" THEN TaskRow(RefDay, RefTime, <<"alin">>, FALSE, TRUE, FALSE)
                ELSE NoTask]
  /\ \E lead \in {7, 12} :
       subs = [e \in Endpoints |->
                 IF e = "e1" THEN SubRow("he_alin", FALSE, <<>>, lead) ELSE NoSub]
  /\ dispatches = {}
  /\ sweep = IdleSweeps
  /\ sweepNo = 0
  /\ log = {}
  /\ returned = {}
  /\ flaggedAt = [t \in TaskIds |-> 0]
  /\ env = ConfiguredEnv
  /\ vapidInitialized = FALSE
  /\ registered = NoRegistrations
  /\ ack = IdleAcks

NextRegister ==
  \/ (sweepNo < MaxRegisterSweeps /\ SweepStart("s1", DefaultOptions))
  \/ SweepSteps("s1")
  \/ \E outcome \in {"delivered", "gone"} : SweepSend("s1", outcome)
  \/ SweepRemove("s1")
  \/ \E meta \in FirstBodies : savePushSubscription("e1", meta)
  \/ \E meta \in OwnerBodies \cup LeadBodies : Idle /\ savePushSubscription("e2", meta)
  \/ \E e \in Endpoints : Unsubscribe(e)

SpecRegister == InitRegister /\ [][NextRegister]_vars

\* C24: the store holds one row per endpoint at most (endpoint is the key of subs),
\* and the row of an endpoint that registered carries the keys and the owner,
\* receive_all flag, watched children and lead time that savePushSubscription
\* derives from the body of the most recent registration of that endpoint.
C24_LatestRegistrationStored ==
  \A e \in Endpoints :
    (subs[e] # NoSub /\ registered[e] # NoReg) =>
      /\ subs[e].keys = trim(registered[e].keys)
      /\ subs[e] = storedSubscription(registered[e])
      /\ (registered[e] = [keys |-> "k2", userName |-> "he_sivan", receiveAll |-> TRUE,
                           watchChildren |-> <<"he_amit">>, reminderLeadMinutes |-> 12])
           => subs[e] = [keys |-> "k2", user_name |-> "he_sivan", receive_all |-> TRUE,
                         watch_children |-> NullList, reminder_lead_minutes |-> 10]

\* the sweep sent to e2 while it was registered with lead time 10; e2 has registered
\* again since, with other keys and lead time 30, and its row carries those; e1 was
\* removed and is absent
C24_Witness ==
  /\ \E x \in log : x.key[4] = "e2" /\ x.key[3] = 10
  /\ subs["e2"] # NoSub
  /\ registered["e2"].keys = "k2" /\ registered["e2"].reminderLeadMinutes = 30
  /\ subs["e2"].keys = "k2" /\ subs["e2"].reminder_lead_minutes = 30
  /\ subs["e1"] = NoSub /\ registered["e1"] # NoReg

\* the endpoints whose row was written by savePushSubscription
Saved == {e \in Endpoints : subs[e] # NoSub /\ registered[e] # NoReg}

\* C25: every row written by savePushSubscription has as owner NULL or one of the
\* three children and two parents: the trimmed name of the registration when that
\* is one of the five, NULL for every other name.
C25_OwnerIsKnownOrNull ==
  \A e \in Saved :
    /\ subs[e].user_name \in {NullText} \cup childUserNames \cup parentUserNames
    /\ subs[e].user_name =
         IF trim(registered[e].userName) \in {"he_ravid", "he_amit", "he_alin", "he_sivan", "he_roi"}
           THEN trim(registered[e].userName) ELSE NullText

\* e2 registered under a name that is none of the five and is stored without owner
C25_Witness ==
  /\ "e2" \in Saved
  /\ registered["e2"].userName = "grandma"
  /\ subs["e2"].user_name = NullText

\* C26: a row written by savePushSubscription has the lead time of the registration
\* when that is 5, 10, 15 or 30 and 10 otherwise; and the sweep takes as L of a
\* subscription the lead time of its row when that is 5, 10, 15 or 30 and 10
\* otherwise: it sends for the subscription iff L <= diffMinutes <= L + W, under a
\* key made with L.
C26_LeadNormalisedTwice ==
  /\ [](\A e \in Saved :
          subs[e].reminder_lead_minutes =
            IF registered[e].reminderLeadMinutes \in {5, 10, 15, 30}
              THEN registered[e].reminderLeadMinutes ELSE 10)
  /\ [](\A x \in log : x.key[3] \in {5, 10, 15, 30})
  /\ [][\A s \in Sweepers :
          (sweep[s].pc = "nextSub" /\ sweep'[s] # sweep[s] /\ sweep[s].targets # {}) =>
            LET e == CHOOSE e \in sweep[s].targets \ sweep'[s].targets : TRUE
                raw == sweep[s].subscriptions[e].reminder_lead_minutes
                L == IF raw \in {5, 10, 15, 30} THEN raw ELSE 10
                due == L <= sweep[s].diffMinutes
                         /\ sweep[s].diffMinutes <= L + sweep[s].windowForwardMinutes
            IN /\ due <=> sweep'[s].pc = "check"
               /\ due => currentKey(sweep'[s])[3] = L
       ]_vars

\* the row of e1 has lead time 12, for which a start 10 minutes ahead would not be
\* due, and the sweep sent to e1 with L = 10; e2 registered with lead time 6 and
\* its row has 10
C26_Witness ==
  /\ subs["e1"] # NoSub /\ subs["e1"].reminder_lead_minutes = 12
  /\ \E x \in log : x.key = dispatchKey("t1", RefStart, 10, "e1") /\ x.diffMinutes = 10
  /\ "e2" \in Saved
  /\ registered["e2"].reminderLeadMinutes = 6
  /\ subs["e2"].reminder_lead_minutes = 10

\* C27: a row written by savePushSubscription for a registration with a lead time
\* that is none of 5, 10, 15, 30 has the nearest of the four (5 for 6, 30 for 29
\* and 31); a registration without lead time gets 10.
C27_NearestLead ==
  \A e \in Saved :
    LET given == registered[e].reminderLeadMinutes
        distance(a, b) == IF a < b THEN b - a ELSE a - b
        nearest == CHOOSE o \in reminderLeadOptions :
                     \A q \in reminderLeadOptions : distance(o, given) <= distance(q, given)
    IN subs[e].reminder_lead_minutes = IF given = Null THEN 10 ELSE nearest

\* C27 amended: a row written by savePushSubscription for a registration with a
\* lead time that is none of 5, 10, 15, 30 has the default 10 (for 6, 29 and 31
\* alike), as has the row of a registration without lead time; a listed lead time
\* is stored as it is.
C27_DefaultLead ==
  \A e \in Saved :
    LET given == registered[e].reminderLeadMinutes
    IN /\ given \in {6, 29, 31} => subs[e].reminder_lead_minutes = 10
       /\ given = Null => subs[e].reminder_lead_minutes = 10
       /\ given \in {5, 15, 30} => subs[e].reminder_lead_minutes = given

\* e2 registered with lead time 29 and its row has 10
C27_Witness ==
  /\ "e2" \in Saved
  /\ registered["e2"].reminderLeadMinutes = 29
  /\ subs["e2"].reminder_lead_minutes = 10

\* C28: in every row written by savePushSubscription receive_all is TRUE only for a
\* parent, the watch list is NULL unless the owner is a parent with receive_all
\* FALSE, and a stored watch list holds known children only, each once.
C28_ParentOnlyColumns ==
  \A e \in Saved :
    LET row == subs[e]
        isParent == row.user_name \in parentUserNames
    IN /\ row.receive_all => isParent
       /\ row.watch_children # NullList => (isParent /\ ~row.receive_all)
       /\ (~isParent \/ row.receive_all) => row.watch_children = NullList
       /\ row.watch_children # NullList =>
            /\ \A i \in 1..Len(row.watch_children) :
                 row.watch_children[i] \in childUserNames
            /\ \A i, j \in 1..Len(row.watch_children) :
                 row.watch_children[i] = row.watch_children[j] => i = j

\* a parent registered without receive_all and with a watch list that names a child
\* twice and a stranger: the row has the two children once each
C28_Witness ==
  /\ "e2" \in Saved
  /\ registered["e2"].userName = "he_sivan" /\ ~registered["e2"].receiveAll
  /\ registered["e2"].watchChildren = <<"he_alin", " he_amit ", "bob", "he_alin">>
  /\ subs["e2"].watch_children = <<"he_alin", "he_amit">>
  /\ ~subs["e2"].receive_all

-----------------------------------------------------------------------------
(* SpecAuth: requests with every kind of Authorization header reach the two *)
(* trigger endpoints of a process whose CRON_SECRET is unset, blank or set. *)

MaxAuthSweeps == 1

Secrets == {NullText, "", " ", "s3", " s3 "}

Headers == {NoHeader, Header("Bearer ", "s3"), Header("Bearer ", " s3 "),
            Header("Bearer ", "wrong"), Header("Bearer ", ""), Header("bearer ", "s3"),
            Header("Basic s", "3"), Header("s3", "")}

\* isAuthorizedCron letting every request pass
isAuthorizedCronOpen(secret, header) == TRUE

\* isAuthorizedCron of both trigger routes
isAuthorizedCron(secret, header) ==
  LET expected == trim(orEmpty(secret))
      token == IF header.prefix = "Bearer " THEN trim(header.rest) ELSE ""
  IN IF expected = "" THEN TRUE ELSE token = expected

\* the 401 answer of a trigger
Unauthorized(header) == [n |-> 0, status |-> 401, authorization |-> header]

\* one request to a trigger that sweeps with options o
runTrigger(s, o, header) ==
  /\ sweep[s].pc = "idle"
  /\ IF isAuthorizedCron(env.cronSecret, header)
       THEN /\ sweepNo < MaxAuthSweeps
            /\ sweepNo' = sweepNo + 1
            /\ sweep' = [sweep EXCEPT ![s] = startedLocals(o, header)]
            /\ UNCHANGED returned
       ELSE /\ returned' = returned \cup {Unauthorized(header)}
            /\ UNCHANGED <<sweep, sweepNo>>
  /\ UNCHANGED <<now, tasks, subs, dispatches, log, flaggedAt, env, vapidInitialized, registered, ack>>

\* GET or POST /api/push/remind
runReminders(s, header) == runTrigger(s, DefaultOptions, header)

\* GET or POST /api/notifications/check
runCheck(s, header) == runTrigger(s, CheckOptions, header)

InitAuth ==
  /\ now \in {(RefStart - 10) * HalfPerMinute,
              (RefStart - JerusalemOffset - 10) * HalfPerMinute}
  /\ tasks = [t \in TaskIds |->
                IF t = "t1" THEN TaskRow(RefDay, RefTime, <<"alin">>, FALSE, TRUE, FALSE)
                ELSE NoTask]
  /\ subs = [e \in Endpoints |->
               IF e = "e1" THEN SubRow("he_alin", FALSE, <<>>, 10) ELSE NoSub]
  /\ dispatches = {}
  /\ sweep = IdleSweeps
  /\ sweepNo = 0
  /\ log = {}
  /\ returned = {}
  /\ flaggedAt = [t \in TaskIds |-> 0]
  /\ \E secret \in Secrets : env = [ConfiguredEnv EXCEPT !.cronSecret = secret]
  /\ vapidInitialized = FALSE
  /\ registered = NoRegistrations
  /\ ack = IdleAcks

NextAuth ==
  \/ \E header \in Headers : runReminders("s1", header)
  \/ \E header \in Headers : runCheck("s1", header)
  \/ SweepSteps("s1")
  \/ \E outcome \in TransportOutcomes : SweepSend("s1", outcome)
  \/ SweepRemove("s1")

SpecAuth == InitAuth /\ [][NextAuth]_vars

\* is CRON_SECRET unset or blank, or is the header "Bearer <token>" with the token
\* equal to CRON_SECRET (blanks around either left aside)
MayRun(secret, header) ==
  \/ secret \in {NullText, "", " "}
  \/ /\ secret \in {"s3", " s3 "}
     /\ header \in {Header("Bearer ", "s3"), Header("Bearer ", " s3 ")}

\* C29: a request to either trigger starts a sweep iff CRON_SECRET is unset or
\* blank or the request carries "Bearer <token>" with the token equal to
\* CRON_SECRET; every other request is answered 401, and that step sends nothing
\* and leaves the task, subscription and dispatch stores as they are.
C29_TriggerAuthorization ==
  [][/\ \A s \in Sweepers :
          (sweep[s].pc = "idle" /\ sweep'[s].pc # "idle") =>
            /\ MayRun(env.cronSecret, sweep'[s].authorization)
            /\ returned' = returned
     /\ \A r \in returned' \ returned :
          r.n = 0 =>
            /\ r.status = 401
            /\ ~MayRun(env.cronSecret, r.authorization)
            /\ sweep' = sweep /\ sweepNo' = sweepNo
            /\ log' = log /\ tasks' = tasks /\ subs' = subs /\ dispatches' = dispatches
    ]_vars

\* with CRON_SECRET set, a request with a wrong token was answered 401 and the
\* sweep of a request with the right token has sent
C29_Witness ==
  /\ env.cronSecret = "s3"
  /\ Unauthorized(Header("Bearer ", "wrong")) \in returned
  /\ sweep["s1"].authorization = Header("Bearer ", "s3")
  /\ \E x \in log : x.n = sweep["s1"].n /\ x.outcome = "delivered"

-----------------------------------------------------------------------------
(* How long before the start a reminder can be sent (SpecWindow)            *)

\* the half minutes from the instant nowHalf to the start of the task, on the
\* clock of the sweep's mode
StartsAhead(task, nowHalf, tz) ==
  IF tz = Null
    THEN parseTaskStartUtc(task.day, task.time) * HalfPerMinute - nowHalf
    ELSE (parseTaskDateKey(task.day) * MinutesPerDay + parseTimeToMinutes(task.time))
           * HalfPerMinute - (nowHalf + tz * HalfPerMinute)

-----------------------------------------------------------------------------
(* SpecKind: one sweep at 13:50 or 13:34 over tasks of every type and      *)
(* title, with a transport that delivers or fails.                         *)

MaxKindSweeps == 1

\* COALESCE(event_type, type) and COALESCE(title, text) of the rows of the model
TaskTypes == {"lesson", "Lesson", "dog", NullText}
TaskTitles == {"English - Karl", "walk the dog", NullText}

TaskOfKind(row, type, text) == [row EXCEPT !.type = type, !.text = text]

InitKind ==
  /\ now \in InstantsBefore(RefStart, {9, 10, 25, 26})
  /\ \E type \in TaskTypes, text \in TaskTitles,
        second \in {NoTask,
                    TaskOfKind(TaskRow(RefDay, RefTime, <<"amit", "alin">>, FALSE, TRUE, FALSE),
                               "dog", "walk the dog")} :
       tasks = [t \in TaskIds |->
                  IF t = "t1"
                    THEN TaskOfKind(TaskRow(RefDay, RefTime, <<"alin">>, FALSE, TRUE, FALSE),
                                    type, text)
                    ELSE second]
  /\ \E other \in {NoSub, SubRow(NullText, FALSE, <<>>, 10)} :
       subs = [e \in Endpoints |->
                 IF e = "e1" THEN SubRow("he_alin", FALSE, <<>>, 10) ELSE other]
  /\ dispatches = {}
  /\ sweep = IdleSweeps
  /\ sweepNo = 0
  /\ log = {}
  /\ returned = {}
  /\ flaggedAt = [t \in TaskIds |-> 0]
  /\ env = ConfiguredEnv
  /\ vapidInitialized = FALSE
  /\ registered = NoRegistrations
  /\ ack = IdleAcks

NextKind ==
  \/ (sweepNo < MaxKindSweeps /\ SweepStart("s1", DefaultOptions))
  \/ SweepSteps("s1")
  \/ \E outcome \in {"delivered", "error"} : SweepSend("s1", outcome)

SpecKind == InitKind /\ [][NextKind]_vars

-----------------------------------------------------------------------------
(* SpecFanOut: one sweep of a trigger at 13:50 on its clock over a task    *)
(* for one or two children and a second task, with two subscriptions, a    *)
(* transport that may fail in every way, and dispatch records that a sweep *)
(* cut off before the end of the task has left.                            *)

MaxFanOutSweeps == 1

FanOutSecondRows ==
  {NoTask,
   TaskRow(RefDay, HHMM(14, 5), <<"alin">>, FALSE, TRUE, FALSE),
   TaskRow(RefDay, HHMM(15, 0), <<"alin">>, FALSE, TRUE, FALSE),
   TaskRow(Ymd(2), RefTime, <<"alin">>, FALSE, TRUE, FALSE),
   TaskRow(NoDay, RefTime, <<"alin">>, FALSE, TRUE, FALSE),
   TaskRow(RefDay, RefTime, <<"ravid">>, FALSE, TRUE, FALSE)}

FanOutSecondSubs ==
  {NoSub,
   SubRow("he_amit", FALSE, <<>>, 10),
   SubRow(NullText, FALSE, <<>>, 5),
   SubRow("he_roi", TRUE, <<>>, 10)}

InitFanOut ==
  /\ now \in {(RefStart - 10) * HalfPerMinute,
              (RefStart - JerusalemOffset - 10) * HalfPerMinute}
  /\ \E child \in {<<"alin">>, <<"amit", "alin">>}, second \in FanOutSecondRows :
       tasks = [t \in TaskIds |->
                  IF t = "t1" THEN TaskRow(RefDay, RefTime, child, FALSE, TRUE, FALSE)
                  ELSE second]
  /\ \E lead \in {10, 30}, other \in FanOutSecondSubs :
       subs = [e \in Endpoints |->
                 IF e = "e1" THEN SubRow("he_alin", FALSE, <<>>, lead) ELSE other]
  /\ dispatches \in SUBSET {DispatchRow(dispatchKey("t1", RefStart, 10, e), 0) : e \in Endpoints}
  /\ sweep = IdleSweeps
  /\ sweepNo = 0
  /\ log = {}
  /\ returned = {}
  /\ flaggedAt = [t \in TaskIds |-> 0]
  /\ env = ConfiguredEnv
  /\ vapidInitialized = FALSE
  /\ registered = NoRegistrations
  /\ ack = IdleAcks

NextFanOut ==
  \/ \E o \in TriggerOptions : sweepNo < MaxFanOutSweeps /\ SweepStart("s1", o)
  \/ SweepSteps("s1")
  \/ \E outcome \in TransportOutcomes : SweepSend("s1", outcome)
  \/ SweepRemove("s1")

SpecFanOut == InitFanOut /\ [][NextFanOut]_vars

\* the key of the task a sweep is at and one of its loaded subscriptions
KeyFor(l, e) ==
  dispatchKey(l.task, parseTaskStartUtc(l.rows[l.task].day, l.rows[l.task].time),
              normalizeReminderLeadMinutes(l.subscriptions[e].reminder_lead_minutes), e)

\* is the task a sweep is at due for one of its loaded subscriptions
DueFor(l, e) ==
  LET lead == normalizeReminderLeadMinutes(l.subscriptions[e].reminder_lead_minutes)
  IN lead <= l.diffMinutes /\ l.diffMinutes <= lead + l.windowForwardMinutes

\* C32: when a sweep has visited the subscriptions of a task, it has called the
\* transport for every audience subscription that is due and had no dispatch
\* record for its own key, whatever the record or the send result of the other
\* subscription of the task.
C32_EveryDueEndpointAttempted ==
  \A s \in Sweepers : sweep[s].pc = "endTask" =>
    \A e \in sweep[s].targeted :
      LET l == sweep[s]
      IN (/\ DueFor(l, e)
          /\ (~wasReminderDispatched(KeyFor(l, e)) \/ KeyFor(l, e) \in DeliveredBy(l.n)))
         => KeyFor(l, e) \in AttemptedBy(l.n)

\* the task is due for both endpoints; one of them had its record and the other
\* was attempted; or the send to one of them failed and the other was attempted
C32_Witness ==
  /\ sweep["s1"].pc = "endTask" /\ sweep["s1"].task = "t1"
  /\ sweep["s1"].targeted = {"e1", "e2"}
  /\ DueFor(sweep["s1"], "e1") /\ DueFor(sweep["s1"], "e2")
  /\ \E e \in Endpoints : \E f \in Endpoints \ {e} :
       /\ wasReminderDispatched(KeyFor(sweep["s1"], e))
       /\ KeyFor(sweep["s1"], e) \notin AttemptedBy(1)
       /\ KeyFor(sweep["s1"], f) \in AttemptedBy(1)

-----------------------------------------------------------------------------
(* The two windows (SpecWindow) *)

\* C33: the effective windowForwardMinutes W of every sweep is an integer of 0..15,
\* so that L + W <= 45 and L >= 0 for every allowed lead time L; and a sweep that
\* ran to its end did not skip as outside_window the task that was due, by its
\* fine window, for an audience subscription.
C33_FineInsideCoarse ==
  \A s \in Sweepers : sweep[s].pc # "idle" =>
    LET l == sweep[s]
    IN /\ l.windowForwardMinutes \in 0..15
       /\ \A L \in reminderLeadOptions : 0 <= L /\ L + l.windowForwardMinutes <= CoarseMax
       /\ (/\ l.pc = "return" /\ l.scanned = 1
           /\ \E t \in DOMAIN l.rows, e \in DOMAIN l.subscriptions :
                LET lead == normalizeReminderLeadMinutes(l.subscriptions[e].reminder_lead_minutes)
                IN /\ shouldSubscriptionReceiveTask(l.subscriptions[e],
                                                    getTaskAudienceChildren(l.rows[t]))
                   /\ WithinMinutes(l.rows[t], l.nowUtc, l.timeZone,
                                    lead, lead + l.windowForwardMinutes))
          => l.skippedByReason["outside_window"] = 0

\* the far corner of the windows: lead time 30, the option 16 clamped to 15, and
\* a reminder delivered 45 minutes before the start
C33_Witness ==
  /\ sweep["s1"].pc = "return"
  /\ sweep["s1"].windowForwardMinutes = 15
  /\ subs["e1"].reminder_lead_minutes = 30
  /\ \E x \in log : /\ x.key = dispatchKey("t1", RefStart, 30, "e1")
                    /\ x.diffMinutes = CoarseMax
                    /\ x.outcome = "delivered"

-----------------------------------------------------------------------------
(* The summary of a sweep (SpecFanOut) *)

\* the counters of the reasons for which a task, not a subscription, is skipped
TaskLevelReasons ==
  {"completed", "already_notified", "notifications_disabled", "invalid_date",
   "date_mismatch", "invalid_time", "outside_window", "no_audience_subscriptions",
   "offset_not_due", "delivery_failed"}

TaskLevelSkips(counters) ==
  counters["completed"] + counters["already_notified"]
    + counters["notifications_disabled"] + counters["invalid_date"]
    + counters["date_mismatch"] + counters["invalid_time"]
    + counters["outside_window"] + counters["no_audience_subscriptions"]
    + counters["offset_not_due"] + counters["delivery_failed"]

\* the transport calls of sweep n for task t that delivered
DeliveriesOf(n, t) == {x \in log : x.n = n /\ x.key[1] = t /\ x.outcome = "delivered"}

\* the step of sweeper s ends its work on task t
EndsTask(s, t) ==
  \/ /\ sweep[s].pc = "nextTask" /\ sweep'[s].pc = "nextTask"
     /\ t \in sweep[s].todo /\ t \notin sweep'[s].todo
  \/ /\ sweep[s].pc = "endTask" /\ sweep'[s].pc = "nextTask"
     /\ t = sweep[s].task

\* C34: every step that ends a sweep's work on a loaded task either increments
\* exactly one of the ten task-level skip counters by one, the task having no
\* delivery, or increments none, the task having at least one delivery, and adds
\* the task's deliveries to sent; no other step of the sweep changes those counters
\* or sent.  So the summary of a completed sweep that found a subscription has
\* scanned = the sum of the ten counters + the number of tasks with a delivery,
\* and sent = the number of deliveries the transport made for the sweep.
C34_SummaryAddsUp ==
  /\ [](\A r \in returned :
          /\ r.scanned = TaskLevelSkips(r.skippedByReason)
                           + Cardinality({t \in TaskIds : DeliveriesOf(r.n, t) # {}})
          /\ r.sent = Cardinality({x \in log : x.n = r.n /\ x.outcome = "delivered"}))
  /\ [][\A s \in Sweepers :
          (sweep[s].pc # "idle" /\ sweep'[s].pc # "idle") =>
            LET before == sweep[s].skippedByReason
                after == sweep'[s].skippedByReason
            IN IF \E t \in TaskIds : EndsTask(s, t)
                 THEN \A t \in TaskIds : EndsTask(s, t) =>
                        \/ /\ \E r \in TaskLevelReasons : after = [before EXCEPT ![r] = @ + 1]
                           /\ DeliveriesOf(sweep[s].n, t) = {}
                           /\ sweep'[s].sent = sweep[s].sent
                        \/ /\ after = before
                           /\ DeliveriesOf(sweep[s].n, t) # {}
                           /\ sweep'[s].sent
                                = sweep[s].sent + Cardinality(DeliveriesOf(sweep[s].n, t))
                 ELSE /\ \A r \in TaskLevelReasons : after[r] = before[r]
                      /\ sweep'[s].sent = sweep[s].sent
       ]_vars

\* a summary of two tasks: one delivered to both endpoints, the other skipped
C34_Witness ==
  \E r \in returned :
    /\ r.scanned = 2 /\ r.sent = 2
    /\ TaskLevelSkips(r.skippedByReason) = 1
    /\ Cardinality(DeliveriesOf(r.n, "t1")) = 2
    /\ DeliveriesOf(r.n, "t2") = {}

-----------------------------------------------------------------------------
(* The delivery_failed counter (SpecOverlap) *)

\* C35: a sweep counts a task under delivery_failed only if it called the
\* transport for the task at least once and none of its calls delivered; a task
\* whose due subscriptions were all skipped as already_dispatched is not counted.
C35_DeliveryFailedMeansAttempted ==
  [][\A s \in Sweepers :
       (/\ sweep[s].pc = "endTask"
        /\ sweep'[s].skippedByReason["delivery_failed"]
             = sweep[s].skippedByReason["delivery_failed"] + 1)
       => /\ \E x \in log : x.n = sweep[s].n /\ x.key[1] = sweep[s].task
          /\ \A x \in log : (x.n = sweep[s].n /\ x.key[1] = sweep[s].task)
                              => x.outcome # "delivered"
    ]_vars

-----------------------------------------------------------------------------
(* Sweeps restricted to child owners (SpecAudience) *)

\* C36: in a sweep with strictChildUserOnly = true a subscription is among the
\* targets of a task iff its owner is a known child that the recipient encoding of
\* the task names; a subscription of a parent or without owner is never among
\* them, whatever its receive_all flag and its watch list.
C36_StrictChildOnly ==
  [][\A s \in Sweepers : (Evaluates(s) /\ sweep[s].strictChildUserOnly) =>
       \A e \in DOMAIN sweep[s].subscriptions :
         LET row == sweep[s].subscriptions[e] IN
           /\ Targets(s, e) <=> (/\ OwnerOf(row) \in childUserNames
                                 /\ OwnerOf(row) \in NamedChildren(EvaluatedChild(s)))
           /\ (OwnerOf(row) \in parentUserNames \/ OwnerOf(row) = "") => ~Targets(s, e)
    ]_vars

\* a strict sweep is at the task of ravid: the subscription of ravid is its only
\* target, the one of the parent with receive_all is not
C36_Witness ==
  /\ sweep["s1"].pc = "nextSub" /\ sweep["s1"].strictChildUserOnly
  /\ sweep["s1"].rows["t1"].child = <<"ravid">>
  /\ subs["e1"] # NoSub /\ OwnerOf(subs["e1"]) = "he_sivan" /\ subs["e1"].receive_all
  /\ subs["e2"] # NoSub /\ OwnerOf(subs["e2"]) = "he_ravid"
  /\ sweep["s1"].targeted = {"e2"}

-----------------------------------------------------------------------------
(* The tolerance of the notifications/check trigger (SpecTrigger) *)

\* C37: no transport call is made by a sweep of the notifications/check trigger
\* at which diffMinutes > L + 2, L being the lead time of the subscription and 2
\* the toleranceMinutes the trigger passes.
C37_CheckToleranceTwo ==
  \A x \in log :
    (\/ \E r \in returned : r.n = x.n /\ r.timeZone = CheckOptions.timeZone
     \/ \E s \in Sweepers : sweep[s].n = x.n /\ sweep[s].timeZone = CheckOptions.timeZone)
    => x.diffMinutes <= x.key[3] + CheckOptions.toleranceMinutes

-----------------------------------------------------------------------------
(* SpecAck: requests to the acknowledgement endpoint, one after another or *)
(* at the same time, for a task that is or is not completed yet and for a  *)
(* task that does not exist; nothing else writes.                          *)

InitAck ==
  /\ now = (RefStart - 10) * HalfPerMinute
  /\ \E completed \in BOOLEAN, notified \in BOOLEAN :
       tasks = [t \in TaskIds |->
                  IF t = "t1" THEN TaskRow(RefDay, RefTime, <<"alin">>, completed, TRUE, notified)
                  ELSE NoTask]
  /\ \E first \in {SubRow("he_roi", TRUE, NullList, 10), SubRow("he_alin", FALSE, NullList, 10)},
        other \in {NoSub, SubRow("he_sivan", FALSE, <<"he_alin">>, 10)} :
       subs = [e \in Endpoints |-> IF e = "e1" THEN first ELSE other]
  /\ dispatches = {}
  /\ sweep = IdleSweeps
  /\ sweepNo = 0
  /\ log = {}
  /\ returned = {}
  /\ flaggedAt = [t \in TaskIds |-> 0]
  /\ env = ConfiguredEnv
  /\ vapidInitialized = FALSE
  /\ registered = NoRegistrations
  /\ ack = IdleAcks

NextAck ==
  \/ \E a \in AckIds, eventId \in {"t1", "t2", " "} : AckPost(a, eventId)
  \/ \E a \in AckIds : AckUpdate(a)
  \/ \E a \in AckIds : AckSelect(a)
  \/ \E a \in AckIds, ok \in SUBSET Endpoints, gone \in SUBSET Endpoints : AckNotify(a, ok, gone)

SpecAck == InitAck /\ [][NextAck]_vars

\* the requests that have sent, or are about to send, the parent notification of a task
NotifiersOf(t) ==
  {a \in AckIds : ack[a].eventId = t /\ (ack[a].calledParents \/ ack[a].pc = "notify")}

\* C38: of the acknowledgements of one task, repeated or concurrent, at most one
\* sends the parent notification, and it is the one whose UPDATE changed completed
\* from false to true; every other one, the task existing, answers ok with
\* alreadyConfirmed = true, calls no transport and changes no store.
C38_OnlyFlippingAckNotifies ==
  /\ [](\A t \in TaskIds : Cardinality(NotifiersOf(t)) <= 1)
  /\ [](\A a \in AckIds :
          (ack[a].pc = "done" /\ ack[a].answer.status = 200) =>
            /\ ack[a].calledParents <=> ~ack[a].answer.alreadyConfirmed
            /\ ack[a].answer.alreadyConfirmed => (ack[a].pushed = {} /\ ~ack[a].row))
  /\ [][\A a \in AckIds : ack'[a] # ack[a] =>
          LET t == ack[a].eventId
              flips == /\ tasks[t] # NoTask /\ ~tasks[t].completed
                       /\ tasks'[t] # NoTask /\ tasks'[t].completed
          IN /\ ack[a].pc = "update" => (ack'[a].row <=> flips)
             /\ (ack'[a].calledParents /\ ~ack[a].calledParents) => ack[a].row
             /\ ~ack'[a].row => UNCHANGED <<tasks, subs, dispatches>>
             /\ (ack[a].pc = "select" /\ tasks[t] # NoTask)
                  => ack'[a].answer = Answer(200, TRUE)
       ]_vars

\* three acknowledgements of t1 at the same time: one has flipped completed and is
\* about to notify, one has been answered alreadyConfirmed, one is reading the task
C38_Witness ==
  \E a \in AckIds : \E b \in AckIds \ {a} : \E c \in AckIds \ {a, b} :
    /\ ack[a].pc = "notify" /\ ack[a].eventId = "t1" /\ ack[a].row
    /\ ack[b].pc = "done" /\ ack[b].eventId = "t1" /\ ack[b].answer = Answer(200, TRUE)
    /\ ack[c].pc = "select" /\ ack[c].eventId = "t1"
    /\ tasks["t1"].completed

-----------------------------------------------------------------------------
(* SpecEmpty: sweeps at 13:50 over due tasks while the only install         *)
(* registers and unregisters, so that a sweep may find the subscription    *)
(* store empty.                                                            *)

MaxEmptySweeps == 2

InitEmpty ==
  /\ now = (RefStart - 10) * HalfPerMinute
  /\ \E second \in {NoTask, TaskRow(RefDay, HHMM(14, 5), <<"alin">>, FALSE, TRUE, FALSE)} :
       tasks = [t \in TaskIds |->
                  IF t = "t1" THEN TaskRow(RefDay, RefTime, <<"alin">>, FALSE, TRUE, FALSE)
                  ELSE second]
  /\ \E first \in {NoSub, SubRow("he_alin", FALSE, <<>>, 10)} :
       subs = [e \in Endpoints |-> IF e = "e1" THEN first ELSE NoSub]
  /\ dispatches = {}
  /\ sweep = IdleSweeps
  /\ sweepNo = 0
  /\ log = {}
  /\ returned = {}
  /\ flaggedAt = [t \in TaskIds |-> 0]
  /\ env = ConfiguredEnv
  /\ vapidInitialized = FALSE
  /\ registered = NoRegistrations
  /\ ack = IdleAcks

NextEmpty ==
  \/ (sweepNo < MaxEmptySweeps /\ SweepStart("s1", DefaultOptions))
  \/ SweepSteps("s1")
  \/ \E outcome \in TransportOutcomes : SweepSend("s1", outcome)
  \/ SweepRemove("s1")
  \/ savePushSubscription("e1", StoreRegistration)
  \/ Unsubscribe("e1")

SpecEmpty == InitEmpty /\ [][NextEmpty]_vars

\* C39: a sweep that starts while the subscription store is empty loads no task:
\* its only step after the entry is its return, which hands back scanned = 0 and
\* sent = 0 and changes no task, no dispatch record and no subscription.
C39_EmptyStoreSweep ==
  [][\A s \in Sweepers :
       /\ (/\ sweep[s].pc = "idle" /\ sweep'[s].pc # "idle"
           /\ \A e \in Endpoints : subs[e] = NoSub)
          => /\ sweep'[s].pc = "return"
             /\ sweep'[s].rows = <<>> /\ sweep'[s].scanned = 0
             /\ UNCHANGED <<tasks, dispatches, subs>>
       /\ (/\ sweep[s].pc # "idle" /\ DOMAIN sweep[s].subscriptions = {}
           /\ sweep'[s] # sweep[s])
          => /\ sweep'[s].pc = "idle"
             /\ UNCHANGED <<tasks, dispatches, subs, log>>
             /\ \E r \in returned' \ returned :
                  r.n = sweep[s].n /\ r.scanned = 0 /\ r.sent = 0
    ]_vars

\* a sweep has returned 0 and 0 from the empty store although a task is due and
\* not notified; the install has registered again since
C39_Witness ==
  /\ Idle
  /\ \E r \in returned : r.n = 1 /\ r.scanned = 0 /\ r.sent = 0
  /\ log = {} /\ dispatches = {}
  /\ ~tasks["t1"].notified /\ ~tasks["t1"].completed
  /\ subs["e1"] # NoSub /\ registered["e1"] # NoReg

====
